---- MODULE Spec2Model ----
(***************************************************************************)
(* A model of the codex-rs core runtime: the rate limiter                  *)
(* (core/src/rate_limiter.rs), the rollout journal (core/src/rollout.rs),  *)
(* the PTY session manager (core/src/exec_command/session_manager.rs), the *)
(* parallel tool grouping (core/src/parallel_tools.rs), the parallel       *)
(* executor (core/src/parallel_executor.rs), the command dependency        *)
(* resolver (core/src/parallel_execution.rs), the turn controller, the     *)
(* command safety classifier (core/src/is_safe_command.rs), the output     *)
(* truncation truncate_middle (session_manager.rs), retry_with_backoff     *)
(* and is_rate_limit_error (rate_limiter.rs), is_safe_for_parallel and the *)
(* shared limiter (parallel_execution.rs), the batcher                     *)
(* (core/src/parallel_batch.rs) and the backtrack of the transcript        *)
(* overlay (tui/src/app_backtrack.rs).                                     *)
(*                                                                         *)
(* Each subsystem has its own variables, its own next-state relation and   *)
(* its own specification (SpecRate, SpecRollout, SpecPty, SpecGroups,      *)
(* SpecExec, SpecDeps, SpecTurn, SpecSafe, SpecTrunc, SpecRetry,           *)
(* SpecNames, SpecErrs, SpecShared, SpecBatch, SpecTui); a specification   *)
(* parks the variables of the other subsystems. The rollout journal has    *)
(* two more specifications on its variables: SpecResume applies resume to  *)
(* the files of ExistingFiles, and SpecAppend follows the recorder that    *)
(* resume returns. SpecDepsFair and SpecSharedFair add weak fairness of    *)
(* the next-state relation: the resolver's loop and the tokio tasks go on  *)
(* while a step is left to them.                                           *)
(***************************************************************************)
EXTENDS Integers, Sequences, FiniteSets, TLC

VARIABLES
    \* ---- rate limiter (rate_limiter.rs) ----
    config,          \* RateLimiter.config: [max_concurrent_calls, min_delay_ms]
    semaphore,       \* permits left in RateLimiter.semaphore
    last_call_time,  \* the Instant kept in RateLimiter.last_call_time
    last_lock,       \* holder of the last_call_time mutex, 0 when free
    acq,             \* per task: where its acquire() call stands
    wake,            \* per task: the instant its sleep(wait_time) may end
    grants,          \* history: the instants written at rate_limiter.rs:67
    clock,           \* Instant::now(), in milliseconds
    \* ---- rollout journal (rollout.rs) ----
    chan,            \* the mpsc channel of RolloutCmd, oldest first
    rx_open,         \* the writer task still owns the Receiver
    file,            \* the lines of the rollout file
    writer,          \* rollout_writer: [pc, batch], batch = items left of AddItems;
                     \* pc = "none" when there is no recorder and no writer task
    recorded,        \* history: recordable items passed to record_items, in call order
    passed,          \* history: items (of any variant) passed to record_items
    last_record,     \* result of the latest record_items call
    shutdown,        \* the shutdown() call: [state, mark]
    io,              \* history of I/O failures: [write_all, flush]
    resumed,         \* history: the resume() calls, [ok, items, read, mark, clean]
    \* ---- PTY session manager (exec_command/session_manager.rs) ----
    next_session_id, \* SessionManager.next_session_id
    sessions,        \* the keys of SessionManager.sessions
    child,           \* per session id: the child process
    exit_tx,         \* per session id: the one-shot exit channel, [state, code]
    sent,            \* per session id: chunks the reader has broadcast so far
    stdin,           \* per session id: byte strings sent to the writer channel
    call,            \* per request: the handler's locals and its position
    now,             \* tokio::time::Instant::now(), in clock ticks
    \* ---- parallel tool groups (parallel_tools.rs) ----
    response_items,  \* the items handed to identify_parallel_groups
    tool_groups,     \* the Vec<ParallelToolGroup> it returned
    grouped,         \* identify_parallel_groups has returned
    RATE_LIMITER,    \* parallel_execution.rs:12: the config of the global limiter
    approval,        \* the latest can_execute_parallel call: [group, result]
    \* ---- execute_parallel (parallel_executor.rs) ----
    total_count,     \* items.len()
    event_sender,    \* the call has Some(event_sender)
    exec_pc,         \* where execute_parallel stands
    handles,         \* per item: the spawned task, [pc, result]
    completed_count, \* the Mutex<usize>: [count, holder]
    exec_permits,    \* free permits of the rate limiter's semaphore
    event_chan,      \* the mpsc channel of Event, oldest first
    event_rx,        \* the Receiver of the channel: "open" or "closed"
    events,          \* history: the events handed to sender.send(), in order
    \* ---- resolve_command_dependencies (parallel_execution.rs) ----
    commands,        \* the argument: [name, depends_on] per command
    remaining,       \* indices into commands, in input order
    executed,        \* the names pushed to executed
    execution_groups,\* the waves, each a sequence of indices into commands
    resolved,        \* resolve_command_dependencies has returned
    cycle_at,        \* history: the first wave of the cycle fallback, 0 if none
    \* ---- turn controller (spec 4.F; its code is not in the sources) ----
    turn_items,      \* the in-memory items of the current conversation
    journal,         \* the items in the rollout file of the current conversation
    requests,        \* history: the model requests sent, [op, input]
    ops,             \* history: the operations performed, in order
    memento_journaled, \* the memento of a compaction is appended to the journal
    argv,            \* the command handed to is_known_safe_command
    user_trusted,    \* the trusted_commands handed to it
    verdict,         \* its result for argv and user_trusted: "none", "safe", "ask"
    text,            \* the string handed to truncate_middle, as bytes
    max_bytes,       \* the cap handed to it
    output,          \* its result: [called, out, original_token_count]
    retry_config,    \* the RateLimitConfig handed to retry_with_backoff
    attempt,         \* its local attempt
    delay_ms,        \* its local delay_ms
    outcomes,        \* history: the result of each call of f, in order
    sleeps,          \* history: the delays slept, in order
    retry_result,    \* its result: [kind, of_call], of_call the call of f it comes from
    called_name,     \* the name handed to is_safe_for_parallel
    safe_for_parallel, \* its result: "none", "true", "false"
    msg,             \* the message handed to is_rate_limit_error
    rate_limit_error, \* its result: "none", "true", "false"
    n_items,         \* items.len() of the execute_parallel call
    caller_pc,       \* where execute_parallel stands
    worker,          \* per item: where its spawned task stands
    rw_readers,      \* the tasks that hold a read guard of RATE_LIMITER
    rw_queue,        \* the requests waiting for the RwLock, oldest first
    limiter_cfgs,    \* history: max_concurrent_calls of each limiter installed
    sem_permits,     \* per limiter installed: free permits of its semaphore
    time_lock,       \* per limiter installed: holder of its last_call_time mutex
    permit_of,       \* per task: the limiter whose permit it holds, 0 if none
    done_count,      \* the Mutex<usize> of the call: [count, holder]
    updater,         \* update_rate_limit_config: [pc, max_concurrent_calls]
    batch_items,     \* ParallelBatcher.items, the kinds of the items
    last_item_time,  \* ParallelBatcher.last_item_time
    batch_now,       \* the clock, in milliseconds
    batch_adds,      \* add_item calls made
    batch_ready,     \* what should_process_batch answered last
    batch_taken,     \* the batch take_items handed out last
    batch_takes,     \* take_items calls made
    transcript_lines, \* App.transcript_lines, the messages of the transcript
    overlay,         \* App.overlay, the kind of overlay shown
    highlight_range, \* TranscriptOverlay.highlight_range, the message highlighted
    backtrack,       \* App.backtrack
    app_event_tx,    \* the events sent to the app event channel
    key_presses      \* key presses handled

rateVars == <<config, semaphore, last_call_time, last_lock, acq, wake, grants, clock>>

rolloutVars == <<chan, rx_open, file, writer, recorded, passed, last_record, shutdown, io,
                 resumed>>

ptyVars == <<next_session_id, sessions, child, exit_tx, sent, stdin, call, now>>

groupVars == <<response_items, tool_groups, grouped, RATE_LIMITER, approval>>

execVars == <<total_count, event_sender, exec_pc, handles, completed_count,
              exec_permits, event_chan, event_rx, events>>

depVars == <<commands, remaining, executed, execution_groups, resolved, cycle_at>>

turnVars == <<turn_items, journal, requests, ops, memento_journaled>>

safeVars == <<argv, user_trusted, verdict>>

truncVars == <<text, max_bytes, output>>

retryVars == <<retry_config, attempt, delay_ms, outcomes, sleeps, retry_result>>

namesVars == <<called_name, safe_for_parallel>>

errsVars == <<msg, rate_limit_error>>

sharedVars == <<n_items, caller_pc, worker, rw_readers, rw_queue, limiter_cfgs, sem_permits, time_lock, permit_of, done_count, updater>>

batchVars == <<batch_items, last_item_time, batch_now, batch_adds, batch_ready, batch_taken, batch_takes>>

tuiVars == <<transcript_lines, overlay, highlight_range, backtrack, app_event_tx, key_presses>>

vars == <<rateVars, rolloutVars, ptyVars, groupVars, execVars, depVars, turnVars, safeVars, truncVars, retryVars, namesVars, errsVars, sharedVars, batchVars, tuiVars>>

\* What the actions of one subsystem leave alone.
notRate == <<rolloutVars, ptyVars, groupVars, execVars, depVars, turnVars, safeVars, truncVars, retryVars, namesVars, errsVars, sharedVars, batchVars, tuiVars>>
notRollout == <<rateVars, ptyVars, groupVars, execVars, depVars, turnVars, safeVars, truncVars, retryVars, namesVars, errsVars, sharedVars, batchVars, tuiVars>>
notPty == <<rateVars, rolloutVars, groupVars, execVars, depVars, turnVars, safeVars, truncVars, retryVars, namesVars, errsVars, sharedVars, batchVars, tuiVars>>
notGroups == <<rateVars, rolloutVars, ptyVars, execVars, depVars, turnVars, safeVars, truncVars, retryVars, namesVars, errsVars, sharedVars, batchVars, tuiVars>>
notExec == <<rateVars, rolloutVars, ptyVars, groupVars, depVars, turnVars, safeVars, truncVars, retryVars, namesVars, errsVars, sharedVars, batchVars, tuiVars>>
notDeps == <<rateVars, rolloutVars, ptyVars, groupVars, execVars, turnVars, safeVars, truncVars, retryVars, namesVars, errsVars, sharedVars, batchVars, tuiVars>>
notTurn == <<rateVars, rolloutVars, ptyVars, groupVars, execVars, depVars, safeVars, truncVars, retryVars, namesVars, errsVars, sharedVars, batchVars, tuiVars>>
notSafe == <<rateVars, rolloutVars, ptyVars, groupVars, execVars, depVars, turnVars, truncVars, retryVars, namesVars, errsVars, sharedVars, batchVars, tuiVars>>
notTrunc == <<rateVars, rolloutVars, ptyVars, groupVars, execVars, depVars, turnVars, safeVars, retryVars, namesVars, errsVars, sharedVars, batchVars, tuiVars>>
notRetry == <<rateVars, rolloutVars, ptyVars, groupVars, execVars, depVars, turnVars, safeVars, truncVars, namesVars, errsVars, sharedVars, batchVars, tuiVars>>
notNames == <<rateVars, rolloutVars, ptyVars, groupVars, execVars, depVars, turnVars, safeVars, truncVars, retryVars, errsVars, sharedVars, batchVars, tuiVars>>
notErrs == <<rateVars, rolloutVars, ptyVars, groupVars, execVars, depVars, turnVars, safeVars, truncVars, retryVars, namesVars, sharedVars, batchVars, tuiVars>>
notShared == <<rateVars, rolloutVars, ptyVars, groupVars, execVars, depVars, turnVars, safeVars, truncVars, retryVars, namesVars, errsVars, batchVars, tuiVars>>
notBatch == <<rateVars, rolloutVars, ptyVars, groupVars, execVars, depVars, turnVars, safeVars, truncVars, retryVars, namesVars, errsVars, sharedVars, tuiVars>>
notTui == <<rateVars, rolloutVars, ptyVars, groupVars, execVars, depVars, turnVars, safeVars, truncVars, retryVars, namesVars, errsVars, sharedVars, batchVars>>

-----------------------------------------------------------------------------
(* Bounds of the model.                                                    *)

NumTasks == 3        \* tasks calling acquire() concurrently
MaxPermits == 2      \* largest max_concurrent_calls tried
MaxDelay == 2        \* largest min_delay_ms tried
MaxClock == 3        \* the clock stops here
MaxGrants == 3       \* acquire() calls issued in one behaviour

MaxBatch == 2        \* items in one record_items call
MaxPassed == 3       \* items passed to record_items in one behaviour
ChanCap == 2         \* slots of the RolloutCmd channel tried (256 in rollout.rs:106)
MaxStateCalls == 1   \* record_state calls that reach the writer in one behaviour
MaxFileLines == 3    \* lines of the file handed to resume
MaxPriorLines == 1   \* body lines of the file a recorder is resumed on
MaxResumes == 2      \* resume calls in one behaviour
MaxWorkers == 2      \* items of the execute_parallel call that shares the limiter
MaxUpdates == 1      \* update_rate_limit_config calls in one behaviour
MaxFaults == 1       \* I/O failures injected in one behaviour
BcastCap == 1        \* slots of the broadcast channel tried (256 in session_manager.rs:279)
MaxNow == 1          \* the PTY clock stops here

MaxItems == 3        \* items in the list handed to identify_parallel_groups

MaxExecItems == 3    \* items in one execute_parallel call
EventCap == 1        \* slots of the Event channel tried

MaxCommands == 3     \* commands handed to resolve_command_dependencies

MaxOps == 7          \* operations on a conversation in one behaviour

MaxArgs == 3         \* tokens of an argv built from GenericWords
MaxCurlArgs == 2     \* arguments of a curl argv built from CurlWords
MaxTrusted == 2      \* patterns in the trusted list

MaxStrLen == 28      \* bytes of the string handed to truncate_middle
MaxCap == 27         \* largest max_bytes tried

MaxRetries == 3      \* largest max_retries tried

Tasks == 1..NumTasks

-----------------------------------------------------------------------------
(* Rate limiter: RateLimiter::new, RateLimiter::acquire, drop of a permit. *)

RateInit ==
    /\ config \in [max_concurrent_calls : 1..MaxPermits, min_delay_ms : 0..MaxDelay]
    /\ semaphore = config.max_concurrent_calls
    /\ last_call_time = 0
    /\ last_lock = 0
    /\ acq = [t \in Tasks |-> "idle"]
    /\ wake = [t \in Tasks |-> 0]
    /\ grants = << >>
    /\ clock = 0

RateParked ==
    /\ config = [max_concurrent_calls |-> 1, min_delay_ms |-> 0]
    /\ semaphore = 0
    /\ last_call_time = 0
    /\ last_lock = 0
    /\ acq = [t \in Tasks |-> "idle"]
    /\ wake = [t \in Tasks |-> 0]
    /\ grants = << >>
    /\ clock = 0

\* Calls of acquire() issued so far.
Issued == Len(grants) + Cardinality({t \in Tasks : acq[t] \in {"sem", "lock", "sleep"}})

\* Semaphore::acquire_owned completes only while a permit is left.
SemaphoreMutant == TRUE
SemaphoreHasPermit == semaphore > 0

\* rate_limiter.rs:59-65: the instant until which acquire() sleeps.
SleepUntilMutant(elapsed) == clock
SleepUntil(elapsed) ==
    IF elapsed < config.min_delay_ms
    THEN clock + (config.min_delay_ms - elapsed)
    ELSE clock

\* A task calls acquire().
AcquireCall(t) ==
    /\ acq[t] = "idle"
    /\ Issued < MaxGrants
    /\ acq' = [acq EXCEPT ![t] = "sem"]
    /\ UNCHANGED <<config, semaphore, last_call_time, last_lock, wake, grants, clock>>
    /\ UNCHANGED notRate

\* rate_limiter.rs:54: the semaphore permit is obtained.
AcquirePermit(t) ==
    /\ acq[t] = "sem"
    /\ SemaphoreHasPermit
    /\ semaphore' = semaphore - 1
    /\ acq' = [acq EXCEPT ![t] = "lock"]
    /\ UNCHANGED <<config, last_call_time, last_lock, wake, grants, clock>>
    /\ UNCHANGED notRate

\* rate_limiter.rs:58-65: the mutex is taken, elapsed is read, the sleep starts.
AcquireLock(t) ==
    /\ acq[t] = "lock"
    /\ last_lock = 0
    /\ last_lock' = t
    /\ wake' = [wake EXCEPT ![t] = SleepUntil(clock - last_call_time)]
    /\ acq' = [acq EXCEPT ![t] = "sleep"]
    /\ UNCHANGED <<config, semaphore, last_call_time, grants, clock>>
    /\ UNCHANGED notRate

\* rate_limiter.rs:67-71: the sleep is over, last_call_time is stamped, the
\* guard is released and the permit is returned.
AcquireReturn(t) ==
    /\ acq[t] = "sleep"
    /\ clock >= wake[t]
    /\ last_call_time' = clock
    /\ grants' = Append(grants, clock)
    /\ last_lock' = 0
    /\ acq' = [acq EXCEPT ![t] = "held"]
    /\ wake' = [wake EXCEPT ![t] = 0]
    /\ UNCHANGED <<config, semaphore, clock>>
    /\ UNCHANGED notRate

\* The RateLimitPermit is dropped: its OwnedSemaphorePermit goes back.
DropPermit(t) ==
    /\ acq[t] = "held"
    /\ semaphore' = semaphore + 1
    /\ acq' = [acq EXCEPT ![t] = "idle"]
    /\ UNCHANGED <<config, last_call_time, last_lock, wake, grants, clock>>
    /\ UNCHANGED notRate

\* Time passes.
RateTick ==
    /\ clock < MaxClock
    /\ clock' = clock + 1
    /\ UNCHANGED <<config, semaphore, last_call_time, last_lock, acq, wake, grants>>
    /\ UNCHANGED notRate

RateNext ==
    \/ \E t \in Tasks : AcquireCall(t)
    \/ \E t \in Tasks : AcquirePermit(t)
    \/ \E t \in Tasks : AcquireLock(t)
    \/ \E t \in Tasks : AcquireReturn(t)
    \/ \E t \in Tasks : DropPermit(t)
    \/ RateTick

-----------------------------------------------------------------------------
(* Rollout journal: RolloutRecorder::{new, record_items, record_state,     *)
(* shutdown, resume}, rollout_writer and JsonlWriter::write_line.          *)

\* The variants record_items and rollout_writer keep (rollout.rs:132-136, 317-321).
Recordable ==
    {"message", "local_shell_call", "function_call", "function_call_output", "reasoning"}

\* The variants the model passes to record_items.
InputTypes == {"message", "function_call", "other"}

\* A ResponseItem: its variant and the content that tells it from the others.
Item(type, n) == [type |-> type, n |-> n]

\* serde_json::to_string of a ResponseItem: the tagged JSON object of the line.
ToJson(item) == [json |-> "item", tag |-> item.type, body |-> item.n]

\* serde_json::from_value::<ResponseItem>: an unknown tag becomes Other.
FromJson(line) ==
    IF line.tag \in Recordable THEN Item(line.tag, line.body) ELSE Item("other", 0)

MetaLine == [json |-> "meta"]
StateLine == [json |-> "state"]

RECURSIVE FilterSeq(_, _)
\* The elements of seq that are in the set keep, in order.
FilterSeq(seq, keep) ==
    IF seq = << >> THEN << >>
    ELSE IF Head(seq) \in keep
         THEN <<Head(seq)>> \o FilterSeq(Tail(seq), keep)
         ELSE FilterSeq(Tail(seq), keep)

RECURSIVE MapSeqItems(_, _)
\* The items of one record_items call: variants types, numbered from n + 1.
MapSeqItems(types, n) ==
    IF types = << >> THEN << >>
    ELSE <<Item(Head(types), n + 1)>> \o MapSeqItems(Tail(types), n + 1)

\* rollout.rs:126-142: the filter of record_items.
FilteredMutant(items) == items
Filtered(items) ==
    FilterSeq(items, {i \in {items[k] : k \in DOMAIN items} : i.type \in Recordable})

RolloutInit ==
    /\ chan = << >>
    /\ rx_open = TRUE
    /\ file = << >>
    /\ writer = [pc |-> "meta", batch |-> << >>]
    /\ recorded = << >>
    /\ passed = 0
    /\ last_record = "none"
    /\ shutdown = [state |-> "none", mark |-> 0]
    /\ io = [write_all |-> 0, flush |-> 0]
    /\ resumed = << >>

RolloutParked ==
    /\ chan = << >>
    /\ rx_open = FALSE
    /\ file = << >>
    /\ writer = [pc |-> "exited", batch |-> << >>]
    /\ recorded = << >>
    /\ passed = 0
    /\ last_record = "none"
    /\ shutdown = [state |-> "none", mark |-> 0]
    /\ io = [write_all |-> 0, flush |-> 0]
    /\ resumed = << >>

BatchTypes == UNION {[1..k -> InputTypes] : k \in 0..MaxBatch}

\* rollout.rs:125-150: record_items. The send waits while the channel is full
\* and fails once the Receiver is gone.
RecordItems(types) ==
    /\ writer.pc # "none"
    /\ passed + Len(types) <= MaxPassed
    /\ LET items == MapSeqItems(types, passed)
           filtered == Filtered(items)
       IN  /\ passed' = passed + Len(types)
           /\ recorded' = recorded \o FilterSeq(items, {i \in {items[k] : k \in DOMAIN items} : i.type \in Recordable})
           /\ IF filtered = << >>
              THEN /\ last_record' = "ok"
                   /\ chan' = chan
              ELSE IF ~rx_open
              THEN /\ last_record' = "err"
                   /\ chan' = chan
              ELSE /\ Len(chan) < ChanCap
                   /\ last_record' = "ok"
                   /\ chan' = Append(chan, [cmd |-> "AddItems", items |-> filtered])
    /\ UNCHANGED <<rx_open, file, writer, shutdown, io, resumed>>
    /\ UNCHANGED notRollout

\* The record_state calls whose command is queued, in hand or written.
StateCalls ==
    Cardinality({i \in DOMAIN chan : chan[i].cmd = "UpdateState"})
        + Cardinality({i \in DOMAIN file : file[i].json = "state"})
        + (IF writer.pc = "state" THEN 1 ELSE 0)

\* rollout.rs:152-157: record_state.
RecordState ==
    /\ writer.pc # "none"
    /\ StateCalls < MaxStateCalls
    /\ rx_open
    /\ Len(chan) < ChanCap
    /\ chan' = Append(chan, [cmd |-> "UpdateState", items |-> << >>])
    /\ UNCHANGED <<rx_open, file, writer, recorded, passed, last_record, shutdown, io, resumed>>
    /\ UNCHANGED notRollout

\* rollout.rs:230-243: shutdown() sends Shutdown { ack } and then awaits the ack.
ShutdownCall ==
    /\ writer.pc # "none"
    /\ shutdown.state = "none"
    /\ IF ~rx_open
       THEN /\ shutdown' = [state |-> "err", mark |-> Len(recorded)]
            /\ chan' = chan
       ELSE /\ Len(chan) < ChanCap
            /\ shutdown' = [state |-> "sent", mark |-> Len(recorded)]
            /\ chan' = Append(chan, [cmd |-> "Shutdown", items |-> << >>])
    /\ UNCHANGED <<rx_open, file, writer, recorded, passed, last_record, io, resumed>>
    /\ UNCHANGED notRollout

\* The outcomes of the two awaits of write_line (rollout.rs:359-360).
IoOutcomes ==
    {o \in [write_all : {"ok", "err"}, flush : {"ok", "err"}, landed : BOOLEAN] :
        /\ (o.write_all = "err" \/ o.flush = "err") => io.write_all + io.flush < MaxFaults
        /\ ~(o.write_all = "err" /\ o.flush = "err")
        /\ (o.landed <=> o.write_all = "ok") \/ o.flush = "err"}

\* rollout.rs:356-362: whether write_line returns Err. The result of write_all
\* is dropped (let _ =); only the result of flush is propagated.
WriteLineFailsMutant(o) == o.flush = "err" \/ o.write_all = "err"
WriteLineFails(o) == o.flush = "err"

\* The file after write_line: the line is there when its bytes were written.
FileAfter(line, o) == IF o.landed /\ o.write_all = "ok" THEN Append(file, line) ELSE file

IoAfter(o) ==
    [write_all |-> io.write_all + (IF o.write_all = "err" THEN 1 ELSE 0),
     flush |-> io.flush + (IF o.flush = "err" THEN 1 ELSE 0)]

\* The writer task returns with an error: the Receiver is dropped, and with
\* it every queued command, the ack sender of a queued Shutdown included.
WriterExits ==
    /\ writer' = [pc |-> "exited", batch |-> << >>]
    /\ rx_open' = FALSE
    /\ chan' = << >>
    /\ shutdown' = IF shutdown.state = "sent"
                   THEN [shutdown EXCEPT !.state = "err"]
                   ELSE shutdown

\* rollout.rs:300-309: the session meta is written first.
WriterMeta(o) ==
    /\ writer.pc = "meta"
    /\ file' = FileAfter(MetaLine, o)
    /\ io' = IoAfter(o)
    /\ IF WriteLineFails(o)
       THEN WriterExits
       ELSE /\ writer' = [pc |-> "recv", batch |-> << >>]
            /\ UNCHANGED <<rx_open, chan, shutdown>>
    /\ UNCHANGED <<recorded, passed, last_record, resumed>>
    /\ UNCHANGED notRollout

\* rollout.rs:312-345: rx.recv() hands over the oldest command.
WriterRecv ==
    /\ writer.pc = "recv"
    /\ chan # << >>
    /\ chan' = Tail(chan)
    /\ LET c == Head(chan)
       IN  CASE c.cmd = "AddItems" ->
                    /\ writer' = [pc |-> "items", batch |-> c.items]
                    /\ shutdown' = shutdown
              [] c.cmd = "UpdateState" ->
                    /\ writer' = [pc |-> "state", batch |-> << >>]
                    /\ shutdown' = shutdown
              [] c.cmd = "Shutdown" ->
                    /\ writer' = writer
                    /\ shutdown' = [shutdown EXCEPT !.state = "ok"]
    /\ UNCHANGED <<rx_open, file, recorded, passed, last_record, io, resumed>>
    /\ UNCHANGED notRollout

\* rollout.rs:315-326: the next item of the AddItems batch is written.
WriterItem(o) ==
    /\ writer.pc = "items"
    /\ LET item == Head(writer.batch)
           rest == Tail(writer.batch)
       IN  /\ file' = IF item.type \in Recordable
                      THEN FileAfter(ToJson(item), o)
                      ELSE file
           /\ io' = IF item.type \in Recordable THEN IoAfter(o) ELSE io
           /\ item.type \notin Recordable => o = [write_all |-> "ok", flush |-> "ok", landed |-> TRUE]
           /\ IF item.type \in Recordable /\ WriteLineFails(o)
              THEN WriterExits
              ELSE /\ writer' = IF rest = << >>
                                THEN [pc |-> "recv", batch |-> << >>]
                                ELSE [pc |-> "items", batch |-> rest]
                   /\ UNCHANGED <<rx_open, chan, shutdown>>
    /\ UNCHANGED <<recorded, passed, last_record, resumed>>
    /\ UNCHANGED notRollout

\* rollout.rs:328-341: the state line is written.
WriterState(o) ==
    /\ writer.pc = "state"
    /\ file' = FileAfter(StateLine, o)
    /\ io' = IoAfter(o)
    /\ IF WriteLineFails(o)
       THEN WriterExits
       ELSE /\ writer' = [pc |-> "recv", batch |-> << >>]
            /\ UNCHANGED <<rx_open, chan, shutdown>>
    /\ UNCHANGED <<recorded, passed, last_record, resumed>>
    /\ UNCHANGED notRollout

RolloutNext ==
    \/ \E types \in BatchTypes : RecordItems(types)
    \/ RecordState
    \/ ShutdownCall
    \/ \E o \in IoOutcomes : WriterMeta(o)
    \/ WriterRecv
    \/ \E o \in IoOutcomes : WriterItem(o)
    \/ \E o \in IoOutcomes : WriterState(o)

\* rollout.rs:159-212: what resume reads back from the file. "error" stands
\* for the Err of an empty file or of a first line that is no session meta.
RECURSIVE ResumeItems(_)
ResumeItemsMutant(lines) ==
    IF lines = << >> THEN << >>
    ELSE IF Head(lines).json = "item" /\ FromJson(Head(lines)).type \in Recordable
         THEN <<FromJson(Head(lines))>> \o ResumeItems(Tail(lines))
         ELSE << >>
ResumeItems(lines) ==
    IF lines = << >> THEN << >>
    ELSE LET l == Head(lines)
         IN  IF l.json = "item" /\ FromJson(l).type \in Recordable
             THEN <<FromJson(l)>> \o ResumeItems(Tail(lines))
             ELSE ResumeItems(Tail(lines))

\* Lines that no recorder writes: a blank line, a line that is no JSON, a
\* JSON value that is no ResponseItem, an item of a variant this build does
\* not know, and a line whose bytes are no UTF-8.
BlankLine == [json |-> "blank"]
InvalidJsonLine == [json |-> "invalid"]
ValueLine == [json |-> "value"]
UnknownItemLine == [json |-> "item", tag |-> "other", body |-> 0]
BadUtf8Line == [json |-> "invalid_utf8"]

\* rollout.rs:164: tokio::fs::read_to_string decodes the bytes of the file as
\* UTF-8 and returns Err(InvalidData) when they are not.
read_to_string(f) ==
    IF \E i \in DOMAIN f : f[i].json = "invalid_utf8"
    THEN [ok |-> FALSE, lines |-> << >>]
    ELSE [ok |-> TRUE, lines |-> f]

Resume(f) ==
    IF ~read_to_string(f).ok THEN [ok |-> FALSE, items |-> << >>]
    ELSE IF f = << >> THEN [ok |-> FALSE, items |-> << >>]
    ELSE IF Head(f).json # "meta" THEN [ok |-> FALSE, items |-> << >>]
    ELSE [ok |-> TRUE, items |-> ResumeItems(Tail(f))]

\* The lines of a rollout file that resume may be handed.
FileLines ==
    {MetaLine, StateLine, ToJson(Item("message", 0)), ToJson(Item("function_call", 0)),
     UnknownItemLine, BlankLine, InvalidJsonLine, ValueLine, BadUtf8Line}

ExistingFiles == UNION {[1..n -> FileLines] : n \in 0..MaxFileLines}

\* The files an earlier recorder has left: the header and its body lines.
PriorFiles ==
    UNION {{<<MetaLine>> \o body : body \in [1..n -> {ToJson(Item("message", 0)), BlankLine}]} :
              n \in 0..MaxPriorLines}

\* A rollout file of an earlier process; no recorder is open on it.
NoRecorder(files) ==
    /\ chan = << >>
    /\ rx_open = FALSE
    /\ file \in files
    /\ writer = [pc |-> "none", batch |-> << >>]
    /\ recorded = << >>
    /\ passed = 0
    /\ last_record = "none"
    /\ shutdown = [state |-> "none", mark |-> 0]
    /\ io = [write_all |-> 0, flush |-> 0]
    /\ resumed = << >>

ResumeInit == NoRecorder(ExistingFiles)

AppendInit == NoRecorder(PriorFiles)

\* rollout.rs:159-228: resume(path). On success the file is reopened in append
\* mode and a writer task is spawned with meta = None, so that it starts in
\* its receive loop; the returned recorder owns the Sender of a new channel.
ResumeCall ==
    /\ writer.pc = "none"
    /\ Len(resumed) < MaxResumes
    /\ LET r == Resume(file)
       IN  /\ resumed' = Append(resumed,
                  [ok |-> r.ok, items |-> r.items, read |-> file,
                   mark |-> Len(recorded),
                   clean |-> shutdown.state = "ok" /\ shutdown.mark = Len(recorded)])
           /\ IF r.ok
              THEN /\ writer' = [pc |-> "recv", batch |-> << >>]
                   /\ rx_open' = TRUE
                   /\ chan' = << >>
                   /\ shutdown' = [state |-> "none", mark |-> 0]
                   /\ last_record' = "none"
              ELSE UNCHANGED <<writer, rx_open, chan, shutdown, last_record>>
    /\ UNCHANGED <<file, recorded, passed, io>>
    /\ UNCHANGED notRollout

\* The recorder is dropped with nothing queued: rx.recv() returns None, the
\* loop of rollout.rs:312 ends and the writer task returns.
DropRecorder ==
    /\ writer.pc \in {"recv", "exited"}
    /\ chan = << >>
    /\ writer' = [pc |-> "none", batch |-> << >>]
    /\ rx_open' = FALSE
    /\ UNCHANGED <<chan, file, recorded, passed, last_record, shutdown, io, resumed>>
    /\ UNCHANGED notRollout

\* resume applied to the files of ExistingFiles.
ResumeNext ==
    \/ ResumeCall
    \/ DropRecorder

\* resume and the recorder it returns.
AppendNext ==
    \/ ResumeCall
    \/ DropRecorder
    \/ \E types \in BatchTypes : RecordItems(types)
    \/ RecordState
    \/ ShutdownCall
    \/ WriterRecv
    \/ \E o \in IoOutcomes : WriterItem(o)
    \/ \E o \in IoOutcomes : WriterState(o)

-----------------------------------------------------------------------------
(* PTY session manager: SessionManager::handle_exec_command_request,       *)
(* SessionManager::handle_write_stdin_request, create_exec_command_session *)
(* and the reader and waiter tasks it spawns.  One clock tick is 25 ms.    *)

\* Two requests, each an exec_command or a write_stdin, run concurrently:
\* a write_stdin can meet the session of an exec_command, and two
\* exec_command requests can race for ids and for the map.
Calls == {1, 2}

\* The ids fetch_add can hand out to them.
SessionIds == {c - 1 : c \in Calls}

\* session_manager.rs:129: the grace period of 25 ms, in clock ticks.
GraceTicks == 1

\* What the waiter task sends: the exit status, or -1 when wait() failed.
WaitCodes == {0, -1}

\* Chunks the reader tasks read in one behaviour: enough to outrun a receiver once.
MaxChunks == BcastCap + 1

\* The values of yield_time_ms tried, in clock ticks.
Yields == 0..MaxNow

NoCode == [some |-> FALSE, code |-> 0]
SomeCode(c) == [some |-> TRUE, code |-> c]

NoResult == [status |-> "none", val |-> 0]

IdleCall ==
    [kind |-> "none", pc |-> "idle", sid |-> 0, cursor |-> 0, collected |-> << >>,
     deadline |-> 0, grace |-> 0, exit_code |-> NoCode, result |-> NoResult,
     in_time |-> FALSE, lagged |-> 0]

PtyInit ==
    /\ next_session_id = 0
    /\ sessions = {}
    /\ child = [s \in SessionIds |-> "none"]
    /\ exit_tx = [s \in SessionIds |-> [state |-> "pending", code |-> 0]]
    /\ sent = [s \in SessionIds |-> 0]
    /\ stdin = [s \in SessionIds |-> 0]
    /\ call = [c \in Calls |-> IdleCall]
    /\ now = 0

PtyParked == PtyInit

\* session_manager.rs:106: HashMap::insert.
InsertSessionMutant(map, sid) == {sid}
InsertSession(map, sid) == map \cup {sid}

\* session_manager.rs:162-166: the exit status reported by exec_command.
ExitStatusOfMutant(exit_code, sid) == [status |-> "Ongoing", val |-> sid]
ExitStatusOf(exit_code, sid) ==
    IF exit_code.some
    THEN [status |-> "Exited", val |-> exit_code.code]
    ELSE [status |-> "Ongoing", val |-> sid]

\* session_manager.rs:92-95: AtomicU32::fetch_add(1, SeqCst), the value it
\* stores; the load and the store are one atomic step.
fetch_addMutant(n) == n
fetch_add(n) == n + 1

\* session_manager.rs:192-198: sessions.get(&session_id) is Some.
SessionsGetMutant(map, sid) == TRUE
SessionsGet(map, sid) == sid \in map

\* tokio broadcast: a receiver at cursor has a value to take.
Available(c) == call[c].cursor <= sent[call[c].sid]

\* tokio broadcast: the receiver fell more than the capacity behind.
Lagging(c) == sent[call[c].sid] - call[c].cursor + 1 > BcastCap

\* tokio broadcast: after Lagged the receiver stands at the oldest value kept.
CursorAfterLagged(c) == sent[call[c].sid] - BcastCap + 1

\* tokio broadcast: after a value the receiver stands at the next one.
CursorAfterChunkMutant(cur) == cur
CursorAfterChunk(cur) == cur + 1

\* Requests are numbered in the order in which they start.
MayStart(c) == call[c].pc = "idle" /\ \A d \in Calls : d < c => call[d].pc # "idle"

\* The exit branch of the biased select is ready (session_manager.rs:125-126).
ExitReady(c) == call[c].kind = "exec" /\ exit_tx[call[c].sid].state = "sent"

\* session_manager.rs:88-102, 244-347: the id is allocated (fetch_add on an
\* AtomicU32; its wrap at 2^32 is out of reach), the PTY is opened,
\* the child is spawned and the reader, writer and waiter tasks are started.
ExecSpawn(c, y) ==
    /\ MayStart(c)
    /\ next_session_id \in SessionIds
    /\ LET sid == next_session_id
       IN  /\ next_session_id' = fetch_add(next_session_id)
           /\ child' = [child EXCEPT ![sid] = "running"]
           /\ call' = [call EXCEPT ![c] =
                        [IdleCall EXCEPT !.kind = "exec", !.pc = "spawned",
                                         !.sid = sid, !.deadline = y]]
    /\ UNCHANGED <<sessions, exit_tx, sent, stdin, now>>
    /\ UNCHANGED notPty

\* session_manager.rs:88-102: create_exec_command_session fails; the id is spent.
ExecSpawnFail(c) ==
    /\ MayStart(c)
    /\ next_session_id \in SessionIds
    /\ next_session_id' = fetch_add(next_session_id)
    /\ call' = [call EXCEPT ![c] =
                 [IdleCall EXCEPT !.kind = "exec", !.pc = "done",
                                  !.sid = next_session_id,
                                  !.result = [status |-> "Error", val |-> next_session_id]]]
    /\ UNCHANGED <<sessions, child, exit_tx, sent, stdin, now>>
    /\ UNCHANGED notPty

\* session_manager.rs:104-117: the handler subscribes to the output, inserts
\* the session into the map and sets its deadline.
ExecInsert(c) ==
    /\ call[c].pc = "spawned"
    /\ sessions' = InsertSession(sessions, call[c].sid)
    /\ call' = [call EXCEPT ![c].pc = "top",
                            ![c].cursor = sent[call[c].sid] + 1,
                            ![c].deadline = now + call[c].deadline]
    /\ UNCHANGED <<next_session_id, child, exit_tx, sent, stdin, now>>
    /\ UNCHANGED notPty

\* session_manager.rs:190-209: write_stdin looks the session up, subscribes,
\* sends the characters to the writer channel and sets its deadline.
StdinStart(c, s, y, chars) ==
    /\ MayStart(c)
    /\ IF ~SessionsGet(sessions, s)
       THEN /\ call' = [call EXCEPT ![c] =
                         [IdleCall EXCEPT !.kind = "stdin", !.pc = "done", !.sid = s,
                                          !.result = [status |-> "Error", val |-> s]]]
            /\ stdin' = stdin
       ELSE /\ call' = [call EXCEPT ![c] =
                         [IdleCall EXCEPT !.kind = "stdin", !.pc = "top", !.sid = s,
                                          !.cursor = sent[s] + 1,
                                          !.deadline = now + y]]
            /\ stdin' = IF chars > 0 THEN [stdin EXCEPT ![s] = 1] ELSE stdin
    /\ UNCHANGED <<next_session_id, sessions, child, exit_tx, sent, now>>
    /\ UNCHANGED notPty

\* session_manager.rs:160-175, 229-239: the handler leaves the loop and
\* returns its output.
Returned(c) ==
    [call[c] EXCEPT !.pc = "done", !.cursor = 0, !.grace = 0, !.deadline = 0,
                    !.result = IF call[c].kind = "exec"
                               THEN ExitStatusOf(call[c].exit_code, call[c].sid)
                               ELSE [status |-> "Ongoing", val |-> call[c].sid]]

\* session_manager.rs:119-123, 210-215: the deadline check at the top of the loop.
LoopTop(c) ==
    /\ call[c].pc = "top"
    /\ call' = [call EXCEPT ![c] = IF now >= call[c].deadline
                                   THEN Returned(c)
                                   ELSE [call[c] EXCEPT !.pc = "recv"]]
    /\ UNCHANGED <<next_session_id, sessions, child, exit_tx, sent, stdin, now>>
    /\ UNCHANGED notPty

\* session_manager.rs:126-129: the exit branch, polled first.
SelectExit(c) ==
    /\ call[c].pc = "recv"
    /\ ExitReady(c)
    /\ call' = [call EXCEPT ![c].pc = "grace",
                            ![c].exit_code = SomeCode(exit_tx[call[c].sid].code),
                            ![c].in_time = now < call[c].deadline,
                            ![c].grace = now + GraceTicks]
    /\ exit_tx' = [exit_tx EXCEPT ![call[c].sid].state = "taken"]
    /\ UNCHANGED <<next_session_id, sessions, child, sent, stdin, now>>
    /\ UNCHANGED notPty

\* session_manager.rs:145-149, 216-220: recv yields the next chunk.
RecvChunk(c) ==
    /\ call[c].pc = "recv"
    /\ ~ExitReady(c)
    /\ Available(c) /\ ~Lagging(c)
    /\ call' = [call EXCEPT ![c].pc = "top",
                            ![c].collected = Append(@, call[c].cursor),
                            ![c].cursor = CursorAfterChunk(@)]
    /\ UNCHANGED <<next_session_id, sessions, child, exit_tx, sent, stdin, now>>
    /\ UNCHANGED notPty

\* session_manager.rs:150-152, 221-223: recv yields Lagged; the loop goes on.
RecvLagged(c) ==
    /\ call[c].pc = "recv"
    /\ ~ExitReady(c)
    /\ Lagging(c)
    /\ call' = [call EXCEPT ![c].pc = "top",
                            ![c].cursor = CursorAfterLagged(c),
                            ![c].lagged = 1]
    /\ UNCHANGED <<next_session_id, sessions, child, exit_tx, sent, stdin, now>>
    /\ UNCHANGED notPty

\* session_manager.rs:154, 225: the timeout of the remaining budget fires.
RecvTimeout(c) ==
    /\ call[c].pc = "recv"
    /\ ~ExitReady(c)
    /\ ~Available(c)
    /\ now >= call[c].deadline
    /\ call' = [call EXCEPT ![c] = Returned(c)]
    /\ UNCHANGED <<next_session_id, sessions, child, exit_tx, sent, stdin, now>>
    /\ UNCHANGED notPty

\* session_manager.rs:130-134: a chunk received within the grace period.
GraceChunk(c) ==
    /\ call[c].pc = "grace"
    /\ now < call[c].grace
    /\ Available(c) /\ ~Lagging(c)
    /\ call' = [call EXCEPT ![c].collected = Append(@, call[c].cursor),
                            ![c].cursor = CursorAfterChunk(@)]
    /\ UNCHANGED <<next_session_id, sessions, child, exit_tx, sent, stdin, now>>
    /\ UNCHANGED notPty

\* session_manager.rs:135-138: Lagged within the grace period; keep trying.
GraceLagged(c) ==
    /\ call[c].pc = "grace"
    /\ now < call[c].grace
    /\ Lagging(c)
    /\ call' = [call EXCEPT ![c].cursor = CursorAfterLagged(c), ![c].lagged = 1]
    /\ UNCHANGED <<next_session_id, sessions, child, exit_tx, sent, stdin, now>>
    /\ UNCHANGED notPty

\* session_manager.rs:130, 140-143: the grace period is over, or a recv
\* attempt of 1 ms found nothing.
GraceEnd(c) ==
    /\ call[c].pc = "grace"
    /\ now >= call[c].grace \/ ~Available(c)
    /\ call' = [call EXCEPT ![c] = Returned(c)]
    /\ UNCHANGED <<next_session_id, sessions, child, exit_tx, sent, stdin, now>>
    /\ UNCHANGED notPty

RECURSIVE SentTotal(_)
\* The chunks broadcast so far by the readers of the sessions in ids.
SentTotal(ids) ==
    IF ids = {} THEN 0
    ELSE LET s == CHOOSE x \in ids : TRUE IN sent[s] + SentTotal(ids \ {s})

\* session_manager.rs:284-305: the reader task reads a chunk and broadcasts
\* it; it stops at end of file or at a read error.
ReaderRead(s) ==
    /\ child[s] # "none"
    /\ SentTotal(SessionIds) < MaxChunks
    /\ sent' = [sent EXCEPT ![s] = @ + 1]
    /\ UNCHANGED <<next_session_id, sessions, child, exit_tx, stdin, call, now>>
    /\ UNCHANGED notPty

\* session_manager.rs:330-336: the child exits, child.wait() returns and the
\* waiter task sends the exit code, -1 when wait failed.
WaiterSend(s, code) ==
    /\ child[s] = "running"
    /\ child' = [child EXCEPT ![s] = "exited"]
    /\ exit_tx' = [exit_tx EXCEPT ![s] = [state |-> "sent", code |-> code]]
    /\ UNCHANGED <<next_session_id, sessions, sent, stdin, call, now>>
    /\ UNCHANGED notPty

\* Time passes.
PtyTick ==
    /\ now < MaxNow
    /\ now' = now + 1
    /\ UNCHANGED <<next_session_id, sessions, child, exit_tx, sent, stdin, call>>
    /\ UNCHANGED notPty

PtyNext ==
    \/ \E c \in Calls : \E y \in Yields : ExecSpawn(c, y)
    \/ \E c \in Calls : ExecSpawnFail(c)
    \/ \E c \in Calls : ExecInsert(c)
    \/ \E c \in Calls : \E s \in SessionIds : \E y \in Yields : \E chars \in 0..1 :
            StdinStart(c, s, y, chars)
    \/ \E c \in Calls : LoopTop(c)
    \/ \E c \in Calls : SelectExit(c)
    \/ \E c \in Calls : RecvChunk(c)
    \/ \E c \in Calls : RecvLagged(c)
    \/ \E c \in Calls : RecvTimeout(c)
    \/ \E c \in Calls : GraceChunk(c)
    \/ \E c \in Calls : GraceLagged(c)
    \/ \E c \in Calls : GraceEnd(c)
    \/ \E s \in SessionIds : ReaderRead(s)
    \/ \E s \in SessionIds : \E code \in WaitCodes : WaiterSend(s, code)
    \/ PtyTick

-----------------------------------------------------------------------------
(* Parallel tool groups: identify_parallel_groups (parallel_tools.rs) and  *)
(* the parallel-safe predicate (parallel_execution.rs).  A name is the     *)
(* sequence of its characters, so that starts_with and contains are        *)
(* computed; the arguments are the JSON value they parse to.               *)

\* str::starts_with.
StartsWith(str, prefix) ==
    Len(prefix) <= Len(str) /\ SubSeq(str, 1, Len(prefix)) = prefix

\* str::contains.
Contains(str, pat) ==
    \E i \in 1..(Len(str) - Len(pat) + 1) : SubSeq(str, i, i + Len(pat) - 1) = pat

\* The string literals of parallel_tools.rs:99-107 and parallel_execution.rs:75-90.
Str_read_file == <<"r", "e", "a", "d", "_", "f", "i", "l", "e">>
Str_list_files == <<"l", "i", "s", "t", "_", "f", "i", "l", "e", "s">>
Str_search_files == <<"s", "e", "a", "r", "c", "h", "_", "f", "i", "l", "e", "s">>
Str_glob_files == <<"g", "l", "o", "b", "_", "f", "i", "l", "e", "s">>
Str_mcp == <<"m", "c", "p", "_", "_">>
Str_read == <<"_", "r", "e", "a", "d">>
Str_get == <<"_", "g", "e", "t">>
Str_list == <<"_", "l", "i", "s", "t">>
Str_search == <<"_", "s", "e", "a", "r", "c", "h">>
Str_status == <<"_", "s", "t", "a", "t", "u", "s">>
Str_container_exec == <<"c", "o", "n", "t", "a", "i", "n", "e", "r", ".", "e", "x", "e", "c">>
Str_apply_patch == <<"a", "p", "p", "l", "y", "_", "p", "a", "t", "c", "h">>
Str_update_plan == <<"u", "p", "d", "a", "t", "e", "_", "p", "l", "a", "n">>
Str_shell == <<"s", "h", "e", "l", "l">>

\* parallel_execution.rs:105-108: the first words of read-only shell commands.
SafeFirstCmds == {"cat", "ls", "grep", "head", "tail", "wc", "find", "pwd", "echo"}

\* parallel_tools.rs:96-109.
is_read_only_toolMutant(name) == TRUE
is_read_only_tool(name) ==
    IF name \in {Str_read_file, Str_list_files, Str_search_files, Str_glob_files}
    THEN TRUE
    ELSE IF StartsWith(name, Str_mcp)
    THEN \/ Contains(name, Str_read)
         \/ Contains(name, Str_get)
         \/ Contains(name, Str_list)
         \/ Contains(name, Str_search)
    ELSE FALSE

\* parallel_tools.rs:71-93.
can_execute_in_parallel(item, group) ==
    IF group = << >> THEN TRUE
    ELSE IF item.type = "FunctionCall"
    THEN IF is_read_only_tool(item.name)
         THEN \A k \in DOMAIN group :
                group[k].type = "FunctionCall" /\ is_read_only_tool(group[k].name)
         ELSE FALSE
    ELSE FALSE

\* parallel_tools.rs:7-9.
ParallelToolGroup(its) == [items |-> its]

\* parallel_tools.rs:24-29, 35-40, 47-52: the current group, when it is not
\* empty, is pushed.
PushCurrentMutant(groups, current_group) ==
    Append(groups, ParallelToolGroup(current_group))
PushCurrent(groups, current_group) ==
    IF current_group # << >> THEN Append(groups, ParallelToolGroup(current_group))
    ELSE groups

RECURSIVE GroupLoop(_, _, _)
\* parallel_tools.rs:16-67: the loop over the items and the push of the
\* remaining group.
GroupLoop(rest, groups, current_group) ==
    IF rest = << >> THEN PushCurrent(groups, current_group)
    ELSE LET item == Head(rest)
         IN  IF item.type = "FunctionCall"
             THEN IF can_execute_in_parallel(item, current_group)
                  THEN GroupLoop(Tail(rest), groups, Append(current_group, item))
                  ELSE GroupLoop(Tail(rest), PushCurrent(groups, current_group), <<item>>)
             ELSE GroupLoop(Tail(rest),
                            Append(PushCurrent(groups, current_group),
                                   ParallelToolGroup(<<item>>)),
                            << >>)

\* parallel_tools.rs:12-68.
identify_parallel_groups(its) == GroupLoop(its, << >>, << >>)

\* parallel_execution.rs:72-93.
is_safe_for_parallel(function_name) ==
    IF function_name \in {Str_read_file, Str_list_files, Str_search_files, Str_glob_files}
    THEN TRUE
    ELSE IF StartsWith(function_name, Str_mcp)
    THEN \/ Contains(function_name, Str_read)
         \/ Contains(function_name, Str_get)
         \/ Contains(function_name, Str_list)
         \/ Contains(function_name, Str_search)
         \/ Contains(function_name, Str_status)
    ELSE IF function_name \in {Str_container_exec, Str_apply_patch, Str_update_plan}
    THEN FALSE
    ELSE IF function_name = Str_shell THEN TRUE
    ELSE FALSE

\* parallel_execution.rs:96-112: arguments is the outcome of
\* serde_json::from_str and of the lookups of "command" and of its element 0.
is_safe_shell_command(arguments) ==
    IF arguments.json = "object" /\ arguments.has_command /\ arguments.command # << >>
    THEN arguments.command[1] \in SafeFirstCmds
    ELSE FALSE

\* parallel_execution.rs:47-56, 174-183: the parallel-safe predicate.
ParallelSafe(item) ==
    IF item.type = "FunctionCall"
    THEN IF item.name = Str_shell
         THEN is_safe_shell_command(item.arguments)
         ELSE is_safe_for_parallel(item.name)
    ELSE FALSE

\* rate_limiter.rs:74-77.
is_parallel_enabledMutant(cfg) == cfg.max_concurrent_calls > 1
is_parallel_enabled(cfg) == cfg.parallel_enabled /\ cfg.max_concurrent_calls > 1

\* parallel_execution.rs:18-58, with the config of RATE_LIMITER as cfg.
can_execute_parallel(its, cfg) ==
    IF ~is_parallel_enabled(cfg) THEN FALSE
    ELSE IF Len(its) <= 1 THEN FALSE
    ELSE IF Len(its) > cfg.max_concurrent_calls THEN FALSE
    ELSE IF ~(\A k \in DOMAIN its : its[k].type = "FunctionCall") THEN FALSE
    ELSE \A k \in DOMAIN its : ParallelSafe(its[k])

\* rate_limiter.rs:23-33: RateLimitConfig::default, the fields the dispatcher reads.
DefaultConfig == [max_concurrent_calls |-> 5, parallel_enabled |-> TRUE]

\* The configurations update_rate_limit_config is called with.
GroupConfigs == [max_concurrent_calls : 1..MaxPermits, parallel_enabled : BOOLEAN]

NoApproval == [group |-> 0, result |-> FALSE]

\* The arguments tried: a string that is not JSON, an object without
\* "command", and objects with a command.
ArgsNotJson == [json |-> "invalid", has_command |-> FALSE, command |-> << >>]
ArgsEmpty == [json |-> "object", has_command |-> FALSE, command |-> << >>]
ArgsCommand(cmd) == [json |-> "object", has_command |-> TRUE, command |-> cmd]

FunctionCall(name, arguments) ==
    [type |-> "FunctionCall", name |-> name, arguments |-> arguments]

RmRfRoot == FunctionCall(Str_shell, ArgsCommand(<<"rm", "-rf", "/">>))
ApplyPatch == FunctionCall(Str_apply_patch, ArgsEmpty)
LocalShellCall == [type |-> "LocalShellCall", name |-> << >>, arguments |-> ArgsEmpty]

\* The items tried.
ItemUniverse ==
    { FunctionCall(Str_read_file, ArgsEmpty),
      FunctionCall(Str_list_files, ArgsNotJson),
      ApplyPatch,
      RmRfRoot,
      FunctionCall(Str_shell, ArgsCommand(<<"ls", "-la">>)),
      FunctionCall(Str_mcp \o <<"f", "s">> \o Str_read, ArgsEmpty),
      FunctionCall(Str_mcp \o <<"c", "i">> \o Str_status, ArgsEmpty),
      FunctionCall(<<"d", "b">> \o Str_get, ArgsEmpty),
      LocalShellCall,
      [type |-> "Message", name |-> << >>, arguments |-> ArgsEmpty] }

\* The lists of at most n items.
ItemLists(n) == UNION {[1..k -> ItemUniverse] : k \in 0..n}

GroupsInit ==
    /\ response_items \in ItemLists(MaxItems)
    /\ tool_groups = << >>
    /\ grouped = FALSE
    /\ RATE_LIMITER = DefaultConfig
    /\ approval = NoApproval

GroupsParked ==
    /\ response_items = << >>
    /\ tool_groups = << >>
    /\ grouped = FALSE
    /\ RATE_LIMITER = DefaultConfig
    /\ approval = NoApproval

\* The call of identify_parallel_groups.
IdentifyParallelGroups ==
    /\ ~grouped
    /\ tool_groups' = identify_parallel_groups(response_items)
    /\ grouped' = TRUE
    /\ UNCHANGED <<response_items, RATE_LIMITER, approval>>
    /\ UNCHANGED notGroups

\* parallel_execution.rs:65-69: update_rate_limit_config.
UpdateRateLimitConfig(cfg) ==
    /\ RATE_LIMITER' = cfg
    /\ UNCHANGED <<response_items, tool_groups, grouped, approval>>
    /\ UNCHANGED notGroups

\* parallel_execution.rs:18-58: can_execute_parallel is asked about the
\* items of group k.
CanExecuteParallel(k) ==
    /\ grouped
    /\ k \in DOMAIN tool_groups
    /\ approval' = [group |-> k,
                    result |-> can_execute_parallel(tool_groups[k].items, RATE_LIMITER)]
    /\ UNCHANGED <<response_items, tool_groups, grouped, RATE_LIMITER>>
    /\ UNCHANGED notGroups

GroupsNext ==
    \/ IdentifyParallelGroups
    \/ \E cfg \in GroupConfigs : UpdateRateLimitConfig(cfg)
    \/ \E k \in 1..MaxItems : CanExecuteParallel(k)

-----------------------------------------------------------------------------
(* execute_parallel (parallel_executor.rs): the caller, one spawned task   *)
(* per item, and the receiver of the events.                               *)

ExecItems == 1..total_count

\* What retry_with_backoff(execute) comes to in a task: Ok, Err, or a panic
\* of the executor.
Outcomes == {"ok", "err", "panic"}

NoTask == [pc |-> "none", result |-> "none"]

StartEvent == [type |-> "ParallelExecutionStart", completed |-> 0]
ProgressEvent(n) == [type |-> "ParallelExecutionProgress", completed |-> n]
EndEvent(ok, bad) ==
    [type |-> "ParallelExecutionEnd", completed |-> 0, successful |-> ok, failed |-> bad]

ExecInit ==
    /\ total_count \in 0..MaxExecItems
    /\ event_sender \in BOOLEAN
    /\ exec_pc = "start"
    /\ handles = [i \in 1..total_count |-> NoTask]
    /\ completed_count = [count |-> 0, holder |-> 0]
    /\ exec_permits \in 1..MaxPermits
    /\ event_chan = << >>
    /\ event_rx = "open"
    /\ events = << >>

ExecParked ==
    /\ total_count = 0
    /\ event_sender = FALSE
    /\ exec_pc = "start"
    /\ handles = << >>
    /\ completed_count = [count |-> 0, holder |-> 0]
    /\ exec_permits = 1
    /\ event_chan = << >>
    /\ event_rx = "open"
    /\ events = << >>

\* tokio mpsc Sender::send: it waits for a free slot and fails at once when
\* the receiver is gone.
SendReady == event_rx = "closed" \/ Len(event_chan) < EventCap

\* The channel after send(e); every result is dropped (`let _ =`).
ChanAfterSend(e) == IF event_rx = "closed" THEN event_chan ELSE Append(event_chan, e)

\* parallel_executor.rs:38-64: the start event is sent when there is a sender.
ExecStart ==
    /\ exec_pc = "start"
    /\ IF event_sender
       THEN /\ SendReady
            /\ event_chan' = ChanAfterSend(StartEvent)
            /\ events' = Append(events, StartEvent)
       ELSE UNCHANGED <<event_chan, events>>
    /\ exec_pc' = "spawn"
    /\ UNCHANGED <<total_count, event_sender, handles, completed_count, exec_permits, event_rx>>
    /\ UNCHANGED notExec

\* parallel_executor.rs:70-118: the loop spawns the task of the next item.
ExecSpawnTask(i) ==
    /\ exec_pc = "spawn"
    /\ i \in ExecItems
    /\ handles[i].pc = "none"
    /\ \A j \in ExecItems : j < i => handles[j].pc # "none"
    /\ handles' = [handles EXCEPT ![i].pc = "spawned"]
    /\ UNCHANGED <<total_count, event_sender, exec_pc, completed_count, exec_permits,
                   event_chan, event_rx, events>>
    /\ UNCHANGED notExec

\* parallel_executor.rs:70, 121: the loop is over, join_all is awaited.
ExecSpawned ==
    /\ exec_pc = "spawn"
    /\ \A j \in ExecItems : handles[j].pc # "none"
    /\ exec_pc' = "join"
    /\ UNCHANGED <<total_count, event_sender, handles, completed_count, exec_permits,
                   event_chan, event_rx, events>>
    /\ UNCHANGED notExec

\* parallel_executor.rs:79: the task gets its permit.
TaskAcquire(i) ==
    /\ i \in ExecItems
    /\ handles[i].pc = "spawned"
    /\ exec_permits > 0
    /\ exec_permits' = exec_permits - 1
    /\ handles' = [handles EXCEPT ![i].pc = "permit"]
    /\ UNCHANGED <<total_count, event_sender, exec_pc, completed_count,
                   event_chan, event_rx, events>>
    /\ UNCHANGED notExec

\* parallel_executor.rs:82-86: the executor runs under retry_with_backoff. A
\* panic ends the task there; its permit is dropped.
TaskExecute(i, outcome) ==
    /\ i \in ExecItems
    /\ handles[i].pc = "permit"
    /\ IF outcome = "panic"
       THEN /\ handles' = [handles EXCEPT ![i] = [pc |-> "finished", result |-> "panic"]]
            /\ exec_permits' = exec_permits + 1
       ELSE /\ handles' = [handles EXCEPT ![i] = [pc |-> "executed", result |-> outcome]]
            /\ exec_permits' = exec_permits
    /\ UNCHANGED <<total_count, event_sender, exec_pc, completed_count,
                   event_chan, event_rx, events>>
    /\ UNCHANGED notExec

\* parallel_executor.rs:89: completed.lock().await returns when no task holds
\* the guard of the counter.
CounterUnlockedMutant(counter) == TRUE
CounterUnlocked(counter) == counter.holder = 0

\* parallel_executor.rs:89-91: the counter is locked and incremented; the
\* guard lives to the end of the task.
TaskCount(i) ==
    /\ i \in ExecItems
    /\ handles[i].pc = "executed"
    /\ CounterUnlocked(completed_count)
    /\ completed_count' = [count |-> completed_count.count + 1, holder |-> i]
    /\ handles' = [handles EXCEPT ![i].pc = "counted"]
    /\ UNCHANGED <<total_count, event_sender, exec_pc, exec_permits,
                   event_chan, event_rx, events>>
    /\ UNCHANGED notExec

\* parallel_executor.rs:121: the JoinHandle of item i has resolved.
TaskFinishedMutant(i) == TRUE
TaskFinished(i) == handles[i].pc = "finished"

\* parallel_executor.rs:94-114: the progress event is sent when there is a
\* sender, the task returns its result, the guard and the permit are dropped.
TaskProgress(i) ==
    /\ i \in ExecItems
    /\ handles[i].pc = "counted"
    /\ IF event_sender
       THEN /\ SendReady
            /\ event_chan' = ChanAfterSend(ProgressEvent(completed_count.count))
            /\ events' = Append(events, ProgressEvent(completed_count.count))
       ELSE UNCHANGED <<event_chan, events>>
    /\ handles' = [handles EXCEPT ![i].pc = "finished"]
    /\ completed_count' = [completed_count EXCEPT !.holder = 0]
    /\ exec_permits' = exec_permits + 1
    /\ UNCHANGED <<total_count, event_sender, exec_pc, event_rx>>
    /\ UNCHANGED notExec

\* The results counted at parallel_executor.rs:128-143.
Successful == Cardinality({i \in ExecItems : handles[i].result = "ok"})
Failed == Cardinality({i \in ExecItems : handles[i].result \in {"err", "panic"}})

\* parallel_executor.rs:121-143: join_all returns when every task has ended.
ExecJoin ==
    /\ exec_pc = "join"
    /\ \A i \in ExecItems : TaskFinished(i)
    /\ exec_pc' = "end"
    /\ UNCHANGED <<total_count, event_sender, handles, completed_count, exec_permits,
                   event_chan, event_rx, events>>
    /\ UNCHANGED notExec

\* parallel_executor.rs:145-167: the end event is sent when there is a
\* sender, and the result is returned.
ExecEnd ==
    /\ exec_pc = "end"
    /\ IF event_sender
       THEN /\ SendReady
            /\ event_chan' = ChanAfterSend(EndEvent(Successful, Failed))
            /\ events' = Append(events, EndEvent(Successful, Failed))
       ELSE UNCHANGED <<event_chan, events>>
    /\ exec_pc' = "done"
    /\ UNCHANGED <<total_count, event_sender, handles, completed_count, exec_permits, event_rx>>
    /\ UNCHANGED notExec

\* The holder of the Receiver takes the oldest event.
EventRecv ==
    /\ event_rx = "open"
    /\ event_chan # << >>
    /\ event_chan' = Tail(event_chan)
    /\ UNCHANGED <<total_count, event_sender, exec_pc, handles, completed_count,
                   exec_permits, event_rx, events>>
    /\ UNCHANGED notExec

\* The holder of the Receiver drops it.
EventRxDrop ==
    /\ event_rx = "open"
    /\ event_sender
    /\ event_rx' = "closed"
    /\ event_chan' = << >>
    /\ UNCHANGED <<total_count, event_sender, exec_pc, handles, completed_count,
                   exec_permits, events>>
    /\ UNCHANGED notExec

ExecNext ==
    \/ ExecStart
    \/ \E i \in 1..MaxExecItems : ExecSpawnTask(i)
    \/ ExecSpawned
    \/ \E i \in 1..MaxExecItems : TaskAcquire(i)
    \/ \E i \in 1..MaxExecItems : \E outcome \in Outcomes : TaskExecute(i, outcome)
    \/ \E i \in 1..MaxExecItems : TaskCount(i)
    \/ \E i \in 1..MaxExecItems : TaskProgress(i)
    \/ ExecJoin
    \/ ExecEnd
    \/ EventRecv
    \/ EventRxDrop

-----------------------------------------------------------------------------
(* resolve_command_dependencies (parallel_execution.rs:120-160), one       *)
(* action per pass of its while loop.                                      *)

\* The names the commands tried carry.
CommandNames == {"a", "b", "c"}

\* The depends_on lists tried, as the sets of their names: none, one name
\* (of a command or "x", which no command carries), or two command names.
DependsOnTried ==
    {deps \in SUBSET (CommandNames \cup {"x"}) :
        Cardinality(deps) <= 1 \/ (Cardinality(deps) = 2 /\ deps \subseteq CommandNames)}

CustomCommands == [name : CommandNames, depends_on : DependsOnTried]

DepsInit ==
    /\ commands \in UNION {[1..n -> CustomCommands] : n \in 0..MaxCommands}
    /\ remaining = [i \in 1..Len(commands) |-> i]
    /\ executed = {}
    /\ execution_groups = << >>
    /\ resolved = FALSE
    /\ cycle_at = 0

\* The commands with at most one dependency: chains, cycles, commands that
\* depend on themselves and commands that depend on a name no command carries.
DepsInitSingle ==
    /\ commands \in UNION {[1..n -> {c \in CustomCommands : Cardinality(c.depends_on) <= 1}] :
                              n \in 0..MaxCommands}
    /\ remaining = [i \in 1..Len(commands) |-> i]
    /\ executed = {}
    /\ execution_groups = << >>
    /\ resolved = FALSE
    /\ cycle_at = 0

DepsParked ==
    /\ commands = << >>
    /\ remaining = << >>
    /\ executed = {}
    /\ execution_groups = << >>
    /\ resolved = FALSE
    /\ cycle_at = 0

\* parallel_execution.rs:131.
deps_satisfiedMutant(cmd, done) == TRUE
deps_satisfied(cmd, done) == \A dep \in cmd.depends_on : dep \in done

RECURSIVE SelectIdx(_, _)
\* The indices of seq whose command passes (keep = TRUE) or fails the test
\* of line 131, in the order of seq.
SelectIdx(seq, keep) ==
    IF seq = << >> THEN << >>
    ELSE IF deps_satisfied(commands[Head(seq)], executed) = keep
         THEN <<Head(seq)>> \o SelectIdx(Tail(seq), keep)
         ELSE SelectIdx(Tail(seq), keep)

\* parallel_execution.rs:126-138.
current_group == SelectIdx(remaining, TRUE)
next_remainingMutant ==
    IF SelectIdx(remaining, FALSE) = << >> THEN << >> ELSE Tail(SelectIdx(remaining, FALSE))
next_remaining == SelectIdx(remaining, FALSE)

\* parallel_execution.rs:142-144: one wave per command left.
SingletonsMutant(seq) == <<seq>>
Singletons(seq) == [k \in 1..Len(seq) |-> <<seq[k]>>]

\* parallel_execution.rs:125-157: a pass that finds commands to run.
ResolveRound ==
    /\ ~resolved
    /\ remaining # << >>
    /\ current_group # << >>
    /\ executed' = executed \cup {commands[current_group[k]].name : k \in DOMAIN current_group}
    /\ execution_groups' = Append(execution_groups, current_group)
    /\ remaining' = next_remaining
    /\ UNCHANGED <<commands, resolved, cycle_at>>
    /\ UNCHANGED notDeps

\* parallel_execution.rs:140-146: a pass that finds none; the rest is
\* emitted one by one and the loop is left.
ResolveCycle ==
    /\ ~resolved
    /\ remaining # << >>
    /\ current_group = << >>
    /\ execution_groups' = execution_groups \o Singletons(next_remaining)
    /\ cycle_at' = Len(execution_groups) + 1
    /\ remaining' = << >>
    /\ resolved' = TRUE
    /\ UNCHANGED <<commands, executed>>
    /\ UNCHANGED notDeps

\* parallel_execution.rs:125, 159: nothing remains; the waves are returned.
ResolveReturn ==
    /\ ~resolved
    /\ remaining = << >>
    /\ resolved' = TRUE
    /\ UNCHANGED <<commands, remaining, executed, execution_groups, cycle_at>>
    /\ UNCHANGED notDeps

DepsNext == ResolveRound \/ ResolveCycle \/ ResolveReturn

-----------------------------------------------------------------------------
(* Turn controller: user turn, compact, resume and fork, as sections 4.B   *)
(* and 4.F of the specification describe them.  Each operation acts on the *)
(* conversation the previous one has left.                                 *)

UserMessage(n) == [role |-> "user", n |-> n]
AssistantMessage(n) == [role |-> "assistant", n |-> n]
Memento(n) == [role |-> "memento", n |-> n]

\* The numbers of turns fork is asked to drop (compact_resume_fork.rs:77, 165).
ForkDrops == {1, 3}

TurnInit ==
    /\ turn_items = << >>
    /\ journal = << >>
    /\ requests = << >>
    /\ ops = << >>
    /\ memento_journaled \in BOOLEAN

TurnParked ==
    /\ turn_items = << >>
    /\ journal = << >>
    /\ requests = << >>
    /\ ops = << >>
    /\ memento_journaled = FALSE

\* The positions of the user messages of seq.
UserPositions(seq) == {i \in DOMAIN seq : seq[i].role = "user"}

\* spec 4.B, Fork: all but the last n user messages and everything after them.
Truncated(seq, n) ==
    LET late == {i \in UserPositions(seq) :
                    Cardinality({j \in UserPositions(seq) : j >= i}) <= n}
    IN  IF Cardinality(UserPositions(seq)) < n THEN << >>
        ELSE IF late = {} THEN seq
        ELSE SubSeq(seq, 1, (CHOOSE i \in late : \A j \in late : i <= j) - 1)

\* spec 4.F steps 1-5: the user message goes to the items and to the journal,
\* the request carries the items, the reply goes to the items and to the journal.
UserTurn ==
    /\ Len(ops) < MaxOps
    /\ LET n == Len(ops) + 1
           input == Append(turn_items, UserMessage(n))
       IN  /\ requests' = Append(requests, [op |-> "send", input |-> input])
           /\ turn_items' = Append(input, AssistantMessage(n))
           /\ journal' = journal \o <<UserMessage(n), AssistantMessage(n)>>
    /\ ops' = Append(ops, "send")
    /\ UNCHANGED memento_journaled
    /\ UNCHANGED notTurn

\* spec 4.F, Compact: the items are replaced by a memento; the journal is
\* not rewritten.
Compact ==
    /\ Len(ops) < MaxOps
    /\ LET n == Len(ops) + 1
       IN  /\ requests' = Append(requests, [op |-> "compact", input |-> turn_items])
           /\ turn_items' = <<Memento(n)>>
           /\ journal' = IF memento_journaled THEN Append(journal, Memento(n)) ELSE journal
    /\ ops' = Append(ops, "compact")
    /\ UNCHANGED memento_journaled
    /\ UNCHANGED notTurn

\* spec 4.B, Resume: the items are those of the file, in file order; the
\* same file is appended to.
ResumeConversation ==
    /\ Len(ops) < MaxOps
    /\ turn_items' = journal
    /\ ops' = Append(ops, "resume")
    /\ UNCHANGED <<journal, requests, memento_journaled>>
    /\ UNCHANGED notTurn

\* spec 4.B, Fork: resume, truncate in memory, begin a new session file.
ForkConversation(n) ==
    /\ Len(ops) < MaxOps
    /\ turn_items' = Truncated(journal, n)
    /\ journal' = Truncated(journal, n)
    /\ ops' = Append(ops, "fork")
    /\ UNCHANGED <<requests, memento_journaled>>
    /\ UNCHANGED notTurn

TurnNext ==
    \/ UserTurn
    \/ Compact
    \/ ResumeConversation
    \/ \E n \in ForkDrops : ForkConversation(n)

-----------------------------------------------------------------------------
(* Command safety classifier: is_known_safe_command and the rules it       *)
(* applies (core/src/is_safe_command.rs).  An argument is the sequence of  *)
(* its characters, so that equality, starts_with, to_uppercase and the     *)
(* slicing of a header are computed.                                       *)

\* is_safe_command.rs:196-208: the programs that are safe with any arguments.
Arg_cat == <<"c", "a", "t">>
Arg_cd == <<"c", "d">>
Arg_echo == <<"e", "c", "h", "o">>
Arg_false == <<"f", "a", "l", "s", "e">>
Arg_grep == <<"g", "r", "e", "p">>
Arg_head == <<"h", "e", "a", "d">>
Arg_ls == <<"l", "s">>
Arg_nl == <<"n", "l">>
Arg_pwd == <<"p", "w", "d">>
Arg_tail == <<"t", "a", "i", "l">>
Arg_true == <<"t", "r", "u", "e">>
Arg_wc == <<"w", "c">>
Arg_which == <<"w", "h", "i", "c", "h">>
\* is_safe_command.rs:212-272: the programs with rules of their own.
Arg_find == <<"f", "i", "n", "d">>
Arg_rg == <<"r", "g">>
Arg_curl == <<"c", "u", "r", "l">>
Arg_git == <<"g", "i", "t">>
Arg_cargo == <<"c", "a", "r", "g", "o">>
Arg_check == <<"c", "h", "e", "c", "k">>
Arg_sed == <<"s", "e", "d">>
Arg_bash == <<"b", "a", "s", "h">>
\* is_safe_command.rs:218-225: UNSAFE_FIND_OPTIONS.
Arg_opt1_exec == <<"-", "e", "x", "e", "c">>
Arg_opt1_execdir == <<"-", "e", "x", "e", "c", "d", "i", "r">>
Arg_opt1_ok == <<"-", "o", "k">>
Arg_opt1_okdir == <<"-", "o", "k", "d", "i", "r">>
Arg_opt1_delete == <<"-", "d", "e", "l", "e", "t", "e">>
Arg_opt1_fls == <<"-", "f", "l", "s">>
Arg_opt1_fprint == <<"-", "f", "p", "r", "i", "n", "t">>
Arg_opt1_fprint0 == <<"-", "f", "p", "r", "i", "n", "t", "0">>
Arg_opt1_fprintf == <<"-", "f", "p", "r", "i", "n", "t", "f">>
\* is_safe_command.rs:234-245: the ripgrep options.
Arg_opt2_pre == <<"-", "-", "p", "r", "e">>
Arg_opt2_hostname_bin == <<"-", "-", "h", "o", "s", "t", "n", "a", "m", "e", "-", "b", "i", "n">>
Arg_opt2_search_zip == <<"-", "-", "s", "e", "a", "r", "c", "h", "-", "z", "i", "p">>
Arg_opt1_z == <<"-", "z">>
\* is_safe_command.rs:130-147: the upload, method and header options of curl.
Arg_opt1_d == <<"-", "d">>
Arg_opt2_data == <<"-", "-", "d", "a", "t", "a">>
Arg_opt1_F == <<"-", "F">>
Arg_opt2_form == <<"-", "-", "f", "o", "r", "m">>
Arg_opt1_T == <<"-", "T">>
Arg_opt2_upload_file == <<"-", "-", "u", "p", "l", "o", "a", "d", "-", "f", "i", "l", "e">>
Arg_opt1_X == <<"-", "X">>
Arg_opt2_request == <<"-", "-", "r", "e", "q", "u", "e", "s", "t">>
Arg_GET == <<"G", "E", "T">>
Arg_HEAD == <<"H", "E", "A", "D">>
Arg_opt1_H == <<"-", "H">>
Arg_opt2_header == <<"-", "-", "h", "e", "a", "d", "e", "r">>
Arg_opt2_header_eq == <<"-", "-", "h", "e", "a", "d", "e", "r", "=">>
\* is_safe_command.rs:165-184: the authentication options of curl.
Arg_opt1_u == <<"-", "u">>
Arg_opt2_user == <<"-", "-", "u", "s", "e", "r">>
Arg_opt2_cookie == <<"-", "-", "c", "o", "o", "k", "i", "e">>
Arg_opt2_basic == <<"-", "-", "b", "a", "s", "i", "c">>
Arg_opt2_digest == <<"-", "-", "d", "i", "g", "e", "s", "t">>
Arg_opt2_ntlm == <<"-", "-", "n", "t", "l", "m">>
Arg_opt2_negotiate == <<"-", "-", "n", "e", "g", "o", "t", "i", "a", "t", "e">>
Arg_opt2_anyauth == <<"-", "-", "a", "n", "y", "a", "u", "t", "h">>
Arg_opt2_proxy_ == <<"-", "-", "p", "r", "o", "x", "y", "-">>
Arg_opt2_cert == <<"-", "-", "c", "e", "r", "t">>
Arg_opt2_key == <<"-", "-", "k", "e", "y">>
Arg_opt2_pass == <<"-", "-", "p", "a", "s", "s">>
Arg_opt2_engine == <<"-", "-", "e", "n", "g", "i", "n", "e">>
Arg_opt2_cacert == <<"-", "-", "c", "a", "c", "e", "r", "t">>
Arg_opt2_capath == <<"-", "-", "c", "a", "p", "a", "t", "h">>
Arg_opt2_pinnedpubkey == <<"-", "-", "p", "i", "n", "n", "e", "d", "p", "u", "b", "k", "e", "y">>
Arg_opt1_I == <<"-", "I">>
Arg_opt2_head == <<"-", "-", "h", "e", "a", "d">>
Arg_opt2_post301 == <<"-", "-", "p", "o", "s", "t", "3", "0", "1">>
Arg_opt2_post302 == <<"-", "-", "p", "o", "s", "t", "3", "0", "2">>
Arg_opt2_post303 == <<"-", "-", "p", "o", "s", "t", "3", "0", "3">>
Arg_opt1_e == <<"-", "e">>
Arg_opt2_referer == <<"-", "-", "r", "e", "f", "e", "r", "e", "r">>
Arg_opt1_A == <<"-", "A">>
Arg_opt2_user_agent == <<"-", "-", "u", "s", "e", "r", "-", "a", "g", "e", "n", "t">>
\* is_safe_command.rs:260-263: the read-only subcommands of git.
Arg_branch == <<"b", "r", "a", "n", "c", "h">>
Arg_status == <<"s", "t", "a", "t", "u", "s">>
Arg_log == <<"l", "o", "g">>
Arg_diff == <<"d", "i", "f", "f">>
Arg_show == <<"s", "h", "o", "w">>
\* is_safe_command.rs:41, 271: the flags of bash and sed.
Arg_opt1_lc == <<"-", "l", "c">>
Arg_opt1_n == <<"-", "n">>
\* is_safe_command.rs:86-103: DANGEROUS_CURL_HEADERS.
Hdr_authorization == <<"a", "u", "t", "h", "o", "r", "i", "z", "a", "t", "i", "o", "n">>
Hdr_proxy_authorization == <<"p", "r", "o", "x", "y", "-", "a", "u", "t", "h", "o", "r", "i", "z", "a", "t", "i", "o", "n">>
Hdr_cookie == <<"c", "o", "o", "k", "i", "e">>
Hdr_set_cookie == <<"s", "e", "t", "-", "c", "o", "o", "k", "i", "e">>
Hdr_x_api_key == <<"x", "-", "a", "p", "i", "-", "k", "e", "y">>
Hdr_x_auth_token == <<"x", "-", "a", "u", "t", "h", "-", "t", "o", "k", "e", "n">>
Hdr_x_access_token == <<"x", "-", "a", "c", "c", "e", "s", "s", "-", "t", "o", "k", "e", "n">>
Hdr_x_secret_key == <<"x", "-", "s", "e", "c", "r", "e", "t", "-", "k", "e", "y">>
Hdr_api_key == <<"a", "p", "i", "-", "k", "e", "y">>
Hdr_apikey == <<"a", "p", "i", "k", "e", "y">>
Hdr_auth == <<"a", "u", "t", "h">>
Hdr_authentication == <<"a", "u", "t", "h", "e", "n", "t", "i", "c", "a", "t", "i", "o", "n">>
Hdr_bearer == <<"b", "e", "a", "r", "e", "r">>
Hdr_token == <<"t", "o", "k", "e", "n">>
Hdr_x_csrf_token == <<"x", "-", "c", "s", "r", "f", "-", "t", "o", "k", "e", "n">>
Hdr_x_xsrf_token == <<"x", "-", "x", "s", "r", "f", "-", "t", "o", "k", "e", "n">>

\* The wildcard of a trusted pattern (is_safe_command.rs:15).
Arg_star == <<"*">>

\* char::to_uppercase on the ASCII letters.
UpperCase ==
    ("a" :> "A") @@ ("b" :> "B") @@ ("c" :> "C") @@ ("d" :> "D") @@ ("e" :> "E") @@ ("f" :> "F")
    @@ ("g" :> "G") @@ ("h" :> "H") @@ ("i" :> "I") @@ ("j" :> "J") @@ ("k" :> "K") @@ ("l" :> "L")
    @@ ("m" :> "M") @@ ("n" :> "N") @@ ("o" :> "O") @@ ("p" :> "P") @@ ("q" :> "Q") @@ ("r" :> "R")
    @@ ("s" :> "S") @@ ("t" :> "T") @@ ("u" :> "U") @@ ("v" :> "V") @@ ("w" :> "W") @@ ("x" :> "X")
    @@ ("y" :> "Y") @@ ("z" :> "Z")

\* str::to_uppercase (is_safe_command.rs:140).
to_uppercase(str) ==
    [k \in DOMAIN str |-> IF str[k] \in DOMAIN UpperCase THEN UpperCase[str[k]] ELSE str[k]]

\* str::to_lowercase (is_safe_command.rs:109).
to_lowercase(str) ==
    [k \in DOMAIN str |->
        IF \E c \in DOMAIN UpperCase : UpperCase[c] = str[k]
        THEN CHOOSE c \in DOMAIN UpperCase : UpperCase[c] = str[k]
        ELSE str[k]]

\* str::trim (is_safe_command.rs:109).
trim(str) ==
    LET keep == {k \in DOMAIN str : str[k] # " "}
    IN  IF keep = {} THEN <<>>
        ELSE SubSeq(str, CHOOSE k \in keep : \A j \in keep : k <= j,
                         CHOOSE k \in keep : \A j \in keep : j <= k)

\* The closure of is_safe_command.rs:8-27, which is_command_trusted repeats
\* at lines 64-82: one trusted pattern against one command.
TrustedMatchesMutant(trusted, command) == trusted = command
TrustedMatches(trusted, command) ==
    \/ trusted = command
    \/ /\ Len(trusted) >= 2
       /\ trusted[Len(trusted)] = Arg_star
       /\ LET pattern_base == SubSeq(trusted, 1, Len(trusted) - 1)
          IN  /\ pattern_base # <<>>
              /\ Len(command) >= Len(pattern_base)
              /\ SubSeq(command, 1, Len(pattern_base)) = pattern_base

\* is_safe_command.rs:63-83.
is_command_trustedMutant(command, trusted_commands) ==
    \A k \in DOMAIN trusted_commands : TrustedMatches(trusted_commands[k], command)
is_command_trusted(command, trusted_commands) ==
    \E k \in DOMAIN trusted_commands : TrustedMatches(trusted_commands[k], command)

DANGEROUS_CURL_HEADERS ==
    {Hdr_authorization, Hdr_proxy_authorization, Hdr_cookie, Hdr_set_cookie,
     Hdr_x_api_key, Hdr_x_auth_token, Hdr_x_access_token, Hdr_x_secret_key,
     Hdr_api_key, Hdr_apikey, Hdr_auth, Hdr_authentication, Hdr_bearer,
     Hdr_token, Hdr_x_csrf_token, Hdr_x_xsrf_token}

\* is_safe_command.rs:106-115.
is_dangerous_header(header_value) ==
    LET colons == {k \in DOMAIN header_value : header_value[k] = ":"}
    IN  IF colons # {}
        THEN LET colon_pos == CHOOSE k \in colons : \A j \in colons : k <= j
                 header_name == to_lowercase(trim(SubSeq(header_value, 1, colon_pos - 1)))
             IN  header_name \in DANGEROUS_CURL_HEADERS
        ELSE TRUE

\* is_safe_command.rs:129-185: the closure has_unsafe_option applies to the
\* argument at position idx (the program name included).
has_unsafe_option(command, idx) ==
    LET arg == command[idx]
    IN  \/ arg = Arg_opt1_d \/ StartsWith(arg, Arg_opt2_data)
        \/ arg = Arg_opt1_F \/ StartsWith(arg, Arg_opt2_form)
        \/ arg = Arg_opt1_T \/ StartsWith(arg, Arg_opt2_upload_file)
        \/ /\ arg = Arg_opt1_X \/ arg = Arg_opt2_request
           /\ idx + 1 \in DOMAIN command
           /\ LET method_upper == to_uppercase(command[idx + 1])
              IN  method_upper # Arg_GET /\ method_upper # Arg_HEAD
        \/ /\ arg = Arg_opt1_H \/ arg = Arg_opt2_header
           /\ idx + 1 \in DOMAIN command
           /\ is_dangerous_header(command[idx + 1])
        \/ /\ ~(arg = Arg_opt1_H \/ arg = Arg_opt2_header)
           /\ StartsWith(arg, Arg_opt2_header_eq)
           /\ is_dangerous_header(SubSeq(arg, 10, Len(arg)))
        \/ arg = Arg_opt1_u
        \/ \E p \in {Arg_opt2_user, Arg_opt2_cookie, Arg_opt2_basic, Arg_opt2_digest,
                     Arg_opt2_ntlm, Arg_opt2_negotiate, Arg_opt2_anyauth,
                     Arg_opt2_proxy_, Arg_opt2_cert, Arg_opt2_key, Arg_opt2_pass,
                     Arg_opt2_engine, Arg_opt2_cacert, Arg_opt2_capath,
                     Arg_opt2_pinnedpubkey} : StartsWith(arg, p)
        \/ arg \in {Arg_opt1_I, Arg_opt2_head, Arg_opt2_post301, Arg_opt2_post302,
                    Arg_opt2_post303, Arg_opt1_e, Arg_opt2_referer, Arg_opt1_A,
                    Arg_opt2_user_agent}

\* is_safe_command.rs:118-188.
is_safe_curl_command(command) ==
    IF command = <<>> THEN FALSE
    ELSE IF command[1] # Arg_curl THEN FALSE
    ELSE ~ \E idx \in DOMAIN command : has_unsafe_option(command, idx)

Digits == {"0", "1", "2", "3", "4", "5", "6", "7", "8", "9"}

\* is_safe_command.rs:288-320: arg matches /^(\d+,)?\d+p$/.
is_valid_sed_n_arg(s) ==
    /\ s # <<>>
    /\ s[Len(s)] = "p"
    /\ LET core == SubSeq(s, 1, Len(s) - 1)
           commas == {k \in DOMAIN core : core[k] = ","}
           AllDigits(lo, hi) == lo <= hi /\ \A k \in lo..hi : core[k] \in Digits
       IN  CASE Cardinality(commas) = 0 -> AllDigits(1, Len(core))
             [] Cardinality(commas) = 1 ->
                    LET c == CHOOSE k \in commas : TRUE
                    IN  AllDigits(1, c - 1) /\ AllDigits(c + 1, Len(core))
             [] OTHER -> FALSE

UNSAFE_FIND_OPTIONS ==
    {Arg_opt1_exec, Arg_opt1_execdir, Arg_opt1_ok, Arg_opt1_okdir, Arg_opt1_delete,
     Arg_opt1_fls, Arg_opt1_fprint, Arg_opt1_fprint0, Arg_opt1_fprintf}

UNSAFE_RIPGREP_OPTIONS_WITH_ARGS == {Arg_opt2_pre, Arg_opt2_hostname_bin}

UNSAFE_RIPGREP_OPTIONS_WITHOUT_ARGS == {Arg_opt2_search_zip, Arg_opt1_z}

\* is_safe_command.rs:190-279.
is_safe_to_call_with_exec(command) ==
    IF command = <<>> THEN FALSE
    ELSE LET cmd0 == command[1]
         IN  CASE cmd0 \in {Arg_cat, Arg_cd, Arg_echo, Arg_false, Arg_grep, Arg_head,
                            Arg_ls, Arg_nl, Arg_pwd, Arg_tail, Arg_true, Arg_wc,
                            Arg_which} -> TRUE
               [] cmd0 = Arg_find ->
                      ~ \E k \in DOMAIN command : command[k] \in UNSAFE_FIND_OPTIONS
               [] cmd0 = Arg_rg ->
                      ~ \E k \in DOMAIN command :
                          \/ command[k] \in UNSAFE_RIPGREP_OPTIONS_WITHOUT_ARGS
                          \/ \E opt \in UNSAFE_RIPGREP_OPTIONS_WITH_ARGS :
                                \/ command[k] = opt
                                \/ StartsWith(command[k], Append(opt, "="))
               [] cmd0 = Arg_curl -> is_safe_curl_command(command)
               [] cmd0 = Arg_git ->
                      /\ Len(command) >= 2
                      /\ command[2] \in {Arg_branch, Arg_status, Arg_log, Arg_diff, Arg_show}
               [] cmd0 = Arg_cargo -> Len(command) >= 2 /\ command[2] = Arg_check
               [] cmd0 = Arg_sed ->
                      /\ Len(command) = 3 \/ Len(command) = 4
                      /\ command[2] = Arg_opt1_n
                      /\ is_valid_sed_n_arg(command[3])
                      /\ Len(command) = 3 \/ command[4] # <<>>
               [] OTHER -> FALSE

\* The bash grammar (crate::bash) as section 4.A rule 3 of the specification
\* describes it: words separated by blanks, single quotes, the connectors
\* &&, ||, ; and |, and everything else of the shell unsupported.
LexInit ==
    [tokens |-> <<>>, word |-> <<>>, inword |-> FALSE, quoted |-> FALSE,
     bare |-> {}, quote |-> FALSE]

\* The word in progress, if any, becomes a token: its text, whether a part of
\* it was quoted, and the characters of it that stood outside quotes.
Flush(acc) ==
    IF acc.inword
    THEN [acc EXCEPT !.tokens = Append(@, [text |-> acc.word, quoted |-> acc.quoted,
                                           bare |-> acc.bare]),
                     !.word = <<>>, !.inword = FALSE, !.quoted = FALSE, !.bare = {}]
    ELSE acc

LexStep(acc, c) ==
    IF acc.quote
    THEN IF c = "'" THEN [acc EXCEPT !.quote = FALSE]
         ELSE [acc EXCEPT !.word = Append(@, c)]
    ELSE IF c = "'" THEN [acc EXCEPT !.quote = TRUE, !.inword = TRUE, !.quoted = TRUE]
    ELSE IF c = " " THEN Flush(acc)
    ELSE [acc EXCEPT !.word = Append(@, c), !.inword = TRUE, !.bare = @ \cup {c}]

RECURSIVE LexFrom(_, _, _)
LexFrom(script, k, acc) ==
    IF k > Len(script) THEN acc ELSE LexFrom(script, k + 1, LexStep(acc, script[k]))

\* try_parse_bash: None when the script does not parse (a quote left open),
\* otherwise the tokens of the script.
try_parse_bash(script) ==
    LET acc == Flush(LexFrom(script, 1, LexInit))
    IN  [some |-> ~acc.quote, value |-> acc.tokens]

Connectors == {<<"&", "&">>, <<"|", "|">>, <<";">>, <<"|">>}

\* The characters that make a token something other than a bare word:
\* redirection, subshell, substitution, background and the like.
ShellSpecial == {"&", "|", ";", ">", "<", "(", ")", "$"}

IsConnector(t) == ~t.quoted /\ t.text \in Connectors

IsWord(t) == ~IsConnector(t) /\ t.bare \cap ShellSpecial = {}

RECURSIVE SplitCommands(_)
SplitCommands(tokens) ==
    LET at == {k \in DOMAIN tokens : IsConnector(tokens[k])}
        Texts(seq) == [k \in DOMAIN seq |-> seq[k].text]
    IN  IF at = {} THEN <<Texts(tokens)>>
        ELSE LET c == CHOOSE k \in at : \A j \in at : k <= j
             IN  <<Texts(SubSeq(tokens, 1, c - 1))>>
                 \o SplitCommands(SubSeq(tokens, c + 1, Len(tokens)))

\* try_parse_word_only_commands_sequence: the commands of a script made of
\* word-only commands joined by the connectors, None for anything else.
try_parse_word_only_commands_sequence(tree) ==
    LET all_commands == SplitCommands(tree)
    IN  IF tree = <<>> THEN [some |-> TRUE, value |-> <<>>]
        ELSE IF \E k \in DOMAIN tree : ~IsConnector(tree[k]) /\ ~IsWord(tree[k])
        THEN [some |-> FALSE, value |-> <<>>]
        ELSE IF \E k \in DOMAIN all_commands : all_commands[k] = <<>>
        THEN [some |-> FALSE, value |-> <<>>]
        ELSE [some |-> TRUE, value |-> all_commands]

\* is_safe_command.rs:40-57: the `bash -lc SCRIPT` rule.
bash_lc_safeMutant(command, trusted_commands) ==
    /\ Len(command) = 3
    /\ command[1] = Arg_bash
    /\ command[2] = Arg_opt1_lc
    /\ LET tree == try_parse_bash(command[3])
       IN  /\ tree.some
           /\ LET all_commands == try_parse_word_only_commands_sequence(tree.value)
              IN  /\ all_commands.some
                  /\ all_commands.value # <<>>
                  /\ \E k \in DOMAIN all_commands.value :
                        \/ is_command_trusted(all_commands.value[k], trusted_commands)
                        \/ is_safe_to_call_with_exec(all_commands.value[k])
bash_lc_safe(command, trusted_commands) ==
    /\ Len(command) = 3
    /\ command[1] = Arg_bash
    /\ command[2] = Arg_opt1_lc
    /\ LET tree == try_parse_bash(command[3])
       IN  /\ tree.some
           /\ LET all_commands == try_parse_word_only_commands_sequence(tree.value)
              IN  /\ all_commands.some
                  /\ all_commands.value # <<>>
                  /\ \A k \in DOMAIN all_commands.value :
                        \/ is_command_trusted(all_commands.value[k], trusted_commands)
                        \/ is_safe_to_call_with_exec(all_commands.value[k])

\* is_safe_command.rs:5-60.
is_known_safe_command(command, trusted_commands) ==
    \/ \E k \in DOMAIN trusted_commands : TrustedMatches(trusted_commands[k], command)
    \/ is_safe_to_call_with_exec(command)
    \/ bash_lc_safe(command, trusted_commands)

\* The arguments and the scripts the classifier is tried on.
Arg_npm == <<"n", "p", "m">>
Arg_run == <<"r", "u", "n">>
Arg_rm == <<"r", "m">>
Arg_POST == <<"P", "O", "S", "T">>
Arg_get == <<"g", "e", "t">>
Arg_opt1_XPOST == <<"-", "X", "P", "O", "S", "T">>
Arg_opt1_dx == <<"-", "d", "x">>
Arg_opt2_data_raw == <<"-", "-", "d", "a", "t", "a", "-", "r", "a", "w">>
Arg_url == <<"x", ".", "i", "o">>
Arg_dot == <<".">>
Arg_1_5p == <<"1", ",", "5", "p">>
Arg_xp == <<"x", "p">>
Arg_file == <<"f">>
Arg_fetch == <<"f", "e", "t", "c", "h">>
Arg_opt2_pre_eq_p == <<"-", "-", "p", "r", "e", "=", "p">>
Arg_Cookie_a == <<"C", "o", "o", "k", "i", "e", ":", " ", "a">>
Arg_Accept_a == <<"A", "c", "c", "e", "p", "t", ":", " ", "a">>
Arg_opt2_header_eq_Accept == <<"-", "-", "h", "e", "a", "d", "e", "r", "=", "A", "c", "c", "e", "p", "t", ":", " ", "a">>
Arg_opt2_header_eq_Token == <<"-", "-", "h", "e", "a", "d", "e", "r", "=", "X", "-", "A", "u", "t", "h", "-", "T", "o", "k", "e", "n", ":", " ", "a">>

\* The options of curl_unsafe_examples (is_safe_command.rs:532-549).
Arg_opt2_dump_header == <<"-", "-", "d", "u", "m", "p", "-", "h", "e", "a", "d", "e", "r">>
Arg_opt1_c == <<"-", "c">>
Arg_opt2_cookie_jar == <<"-", "-", "c", "o", "o", "k", "i", "e", "-", "j", "a", "r">>
Arg_opt1_K == <<"-", "K">>
Arg_opt2_config == <<"-", "-", "c", "o", "n", "f", "i", "g">>

Script_ls_and_pwd == <<"l", "s", " ", "&", "&", " ", "p", "w", "d">>
Script_ls_pipe_wc == <<"l", "s", " ", "|", " ", "w", "c">>
Script_ls_and_rm == <<"l", "s", " ", "&", "&", " ", "r", "m">>
Script_subshell == <<"(", "l", "s", ")">>
Script_redirect == <<"l", "s", " ", ">", " ", "o">>
Script_substitution == <<"l", "s", " ", "$", "(", "r", "m", ")">>
Script_quoted_git == <<"'", "g", "i", "t", " ", "s", "t", "a", "t", "u", "s", "'">>
Script_git_status == <<"g", "i", "t", " ", "s", "t", "a", "t", "u", "s">>
Script_empty == <<>>
Script_unterminated == <<"l", "s", " ", "'">>
Script_trailing == <<"l", "s", " ", "&", "&">>
Script_npm_run == <<"n", "p", "m", " ", "r", "u", "n">>
Script_echo_quoted == <<"e", "c", "h", "o", " ", "'", ">", "'">>

Scripts ==
    {Script_ls_and_pwd, Script_ls_pipe_wc, Script_ls_and_rm,
     Script_subshell, Script_redirect, Script_substitution,
     Script_quoted_git, Script_git_status, Script_empty,
     Script_unterminated, Script_trailing, Script_npm_run,
     Script_echo_quoted}

GenericWords == {Arg_npm, Arg_run, Arg_rm, Arg_star}

GenericCommands == UNION {[1..n -> GenericWords] : n \in 1..MaxArgs}

CurlWords ==
    {Arg_opt1_X, Arg_POST, Arg_get, Arg_opt1_XPOST, Arg_opt1_d, Arg_opt1_dx,
     Arg_opt2_data_raw, Arg_opt1_F, Arg_opt1_T, Arg_url}

CurlCommands ==
    {<<Arg_curl>> \o args : args \in UNION {[1..n -> CurlWords] : n \in 0..MaxCurlArgs}}

BashCommands ==
    {<<Arg_bash, Arg_opt1_lc, script>> : script \in Scripts}
    \cup {<<Arg_bash, Arg_opt1_lc, Arg_git, Arg_status>>, <<Arg_bash, Arg_opt1_lc>>}

\* Invocations taken from the tests of is_safe_command.rs:332-676.
ExecExamples ==
    {<<Arg_ls>>, <<Arg_git, Arg_status>>, <<Arg_git, Arg_fetch>>, <<Arg_cargo, Arg_check>>,
     <<Arg_sed, Arg_opt1_n, Arg_1_5p, Arg_file>>, <<Arg_sed, Arg_opt1_n, Arg_xp, Arg_file>>,
     <<Arg_find, Arg_dot, Arg_opt1_delete>>, <<Arg_find, Arg_dot>>,
     <<Arg_rg, Arg_opt2_pre_eq_p, Arg_file>>, <<Arg_rg, Arg_file>>,
     <<Arg_curl, Arg_opt1_H, Arg_Cookie_a, Arg_url>>,
     <<Arg_curl, Arg_opt1_H, Arg_Accept_a, Arg_url>>,
     <<Arg_curl, Arg_opt2_header_eq_Accept, Arg_url>>,
     <<Arg_curl, Arg_opt2_header_eq_Token, Arg_url>>,
     <<Arg_curl, Arg_opt2_dump_header, Arg_file, Arg_url>>,
     <<Arg_curl, Arg_opt1_c, Arg_file, Arg_url>>,
     <<Arg_curl, Arg_opt2_cookie_jar, Arg_file, Arg_url>>,
     <<Arg_curl, Arg_opt1_K, Arg_file, Arg_url>>,
     <<Arg_curl, Arg_opt2_config, Arg_file, Arg_url>>}

SafeCommands == GenericCommands \cup CurlCommands \cup BashCommands \cup ExecExamples

TrustedPatterns ==
    {<<Arg_star>>, <<Arg_npm, Arg_star>>, <<Arg_npm, Arg_run, Arg_star>>, <<Arg_rm>>,
     <<Arg_bash, Arg_star>>}

SafeInit ==
    /\ argv \in SafeCommands
    /\ user_trusted = <<>>
    /\ verdict = "none"

SafeParked ==
    /\ argv = <<>>
    /\ user_trusted = <<>>
    /\ verdict = "none"

Classified(command, trusted_commands) ==
    IF is_known_safe_command(command, trusted_commands) THEN "safe" ELSE "ask"

\* A call of is_known_safe_command(argv, user_trusted).
IsKnownSafeCommand ==
    /\ verdict = "none"
    /\ verdict' = Classified(argv, user_trusted)
    /\ UNCHANGED <<argv, user_trusted>>
    /\ UNCHANGED notSafe

\* The trusted list gains the pattern p; an argv that has been classified is
\* classified again with the longer list.
AddTrustedCommand(p) ==
    /\ Len(user_trusted) < MaxTrusted
    /\ user_trusted' = Append(user_trusted, p)
    /\ verdict' = IF verdict = "none" THEN "none" ELSE Classified(argv, user_trusted')
    /\ UNCHANGED argv
    /\ UNCHANGED notSafe

SafeNext ==
    \/ IsKnownSafeCommand
    \/ \E p \in TrustedPatterns : AddTrustedCommand(p)

-----------------------------------------------------------------------------
(* truncate_middle (exec_command/session_manager.rs:354-463).  A string is *)
(* the sequence of its bytes: "a" an ASCII byte, "NL" the newline, "w1"    *)
(* and "w2" the two bytes of one character, "m" a byte of the marker.      *)
(* Indices are the byte offsets of the code, counted from 0.               *)

\* The string of len bytes with a newline at byte nl and a character of two
\* bytes at bytes wide and wide + 1 (0: none), ASCII elsewhere.
TruncString(len, nl, wide) ==
    [k \in 1..len |-> IF k = nl THEN "NL"
                      ELSE IF k = wide THEN "w1"
                      ELSE IF wide > 0 /\ k = wide + 1 THEN "w2"
                      ELSE "a"]

TruncStrings ==
    {TruncString(c[1], c[2], c[3]) :
        c \in {d \in (0..MaxStrLen) \X (0..MaxStrLen) \X (0..MaxStrLen) :
                  /\ d[2] <= d[1]
                  /\ d[3] = 0 \/ d[3] < d[1]
                  /\ d[3] = 0 \/ d[2] \notin {d[3], d[3] + 1}}}

NoOutput == [called |-> FALSE, out |-> <<>>, original_token_count |-> [some |-> FALSE, value |-> 0]]

TruncInit ==
    /\ text \in TruncStrings
    /\ max_bytes \in 0..MaxCap
    /\ output = NoOutput

TruncParked ==
    /\ text = <<>>
    /\ max_bytes = 0
    /\ output = NoOutput

\* str::is_char_boundary.
is_char_boundary(str, index) ==
    \/ index = 0
    \/ index = Len(str)
    \/ index < Len(str) /\ str[index + 1] # "w2"

\* u64::div_ceil(4) of session_manager.rs:359, 426.
div_ceil_4(n) == (n + 3) \div 4

RECURSIVE DecimalLen(_)
DecimalLen(n) == IF n < 10 THEN 1 ELSE 1 + DecimalLen(n \div 10)

\* format!("…{} tokens truncated…", n): two ellipses of three bytes each, the
\* digits of n and the seventeen bytes of " tokens truncated".
Marker(n) == [k \in 1..(3 + DecimalLen(n) + 17 + 3) |-> "m"]

\* session_manager.rs:369-378.
truncate_on_boundary(input, max_len) ==
    IF Len(input) <= max_len THEN input
    ELSE LET ends == {e \in 0..max_len : e = 0 \/ is_char_boundary(input, e)}
             end == CHOOSE e \in ends : \A f \in ends : f <= e
         IN  SubSeq(input, 1, end)

\* session_manager.rs:382-389.
pick_prefix_end(str, left_budget) ==
    LET head_some == left_budget <= Len(str) /\ is_char_boundary(str, left_budget)
        newlines == {i \in 0..(left_budget - 1) : str[i + 1] = "NL"}
    IN  IF head_some /\ newlines # {}
        THEN (CHOOSE i \in newlines : \A j \in newlines : j <= i) + 1
        ELSE Len(truncate_on_boundary(str, left_budget))

\* session_manager.rs:391-404.
pick_suffix_start(str, right_budget) ==
    LET start_tail == IF Len(str) >= right_budget THEN Len(str) - right_budget ELSE 0
        tail_some == is_char_boundary(str, start_tail)
        newlines == {i \in start_tail..(Len(str) - 1) : str[i + 1] = "NL"}
        stops == {i \in start_tail..Len(str) : i = Len(str) \/ is_char_boundary(str, i)}
    IN  IF tail_some /\ newlines # {}
        THEN (CHOOSE i \in newlines : \A j \in newlines : i <= j) + 1
        ELSE CHOOSE i \in stops : \A j \in stops : i <= j

\* session_manager.rs:429-435, 456-461: the kept prefix, the marker on a line
\* of its own, the kept suffix.
AssembleMutant(str, prefix_end, marker, suffix_start) ==
    SubSeq(str, 1, prefix_end) \o marker \o <<"NL">> \o str
Assemble(str, prefix_end, marker, suffix_start) ==
    SubSeq(str, 1, prefix_end) \o marker \o <<"NL">> \o SubSeq(str, suffix_start + 1, Len(str))

\* session_manager.rs:407-462: one pass of the refinement loop with `rounds`
\* passes left, the fallback after the loop when rounds = 0.
RECURSIVE Refine(_, _, _, _, _)
Refine(str, cap, guess_tokens, est_tokens, rounds) ==
    LET marker == Marker(guess_tokens)
        marker_len == Len(marker)
        keep_budget == IF cap >= marker_len THEN cap - marker_len ELSE 0
        left_budget == keep_budget \div 2
        right_budget == keep_budget - left_budget
        prefix_end == pick_prefix_end(str, left_budget)
        picked == pick_suffix_start(str, right_budget)
        suffix_start == IF rounds > 0 /\ picked < prefix_end THEN prefix_end ELSE picked
        kept_content_bytes == prefix_end + (Len(str) - suffix_start)
        truncated_content_bytes ==
            IF Len(str) >= kept_content_bytes THEN Len(str) - kept_content_bytes ELSE 0
        new_tokens == div_ceil_4(truncated_content_bytes)
    IN  IF keep_budget = 0
        THEN [called |-> TRUE, out |-> Marker(est_tokens),
              original_token_count |-> [some |-> TRUE, value |-> est_tokens]]
        ELSE IF rounds = 0 \/ new_tokens = guess_tokens
        THEN [called |-> TRUE,
              out |-> Assemble(str, prefix_end, marker, suffix_start),
              original_token_count |-> [some |-> TRUE, value |-> est_tokens]]
        ELSE Refine(str, cap, new_tokens, est_tokens, rounds - 1)

\* session_manager.rs:354-463.
truncate_middle(str, cap) ==
    IF Len(str) <= cap
    THEN [called |-> TRUE, out |-> str, original_token_count |-> [some |-> FALSE, value |-> 0]]
    ELSE LET est_tokens == div_ceil_4(Len(str))
         IN  IF cap = 0
             THEN [called |-> TRUE, out |-> Marker(est_tokens),
                   original_token_count |-> [some |-> TRUE, value |-> est_tokens]]
             ELSE Refine(str, cap, est_tokens, est_tokens, 4)

\* A call truncate_middle(&output, cap_bytes) (session_manager.rs:169, 233).
TruncateMiddle ==
    /\ ~output.called
    /\ output' = truncate_middle(text, max_bytes)
    /\ UNCHANGED <<text, max_bytes>>
    /\ UNCHANGED notTrunc

TruncNext == TruncateMiddle

-----------------------------------------------------------------------------
(* retry_with_backoff (rate_limiter.rs:91-127).  backoff_multiplier is     *)
(* kept in tenths, so that the f64 product and its cast to u64 are the     *)
(* integer (delay_ms * tenths) \div 10, and 0 for a negative product.      *)

\* rate_limiter.rs:119: the cap of the delay, in milliseconds.
DelayCapMs == 60000

MinDelays == {0, 100, 45000, 70000}

Multipliers == {-10, 5, 15, 20}

RetryConfigs ==
    [min_delay_ms : MinDelays, backoff_multiplier : Multipliers, max_retries : 0..MaxRetries]

NoRetryResult == [kind |-> "none", of_call |-> 0]

\* rate_limiter.rs:100-101.
RetryInit ==
    /\ retry_config \in RetryConfigs
    /\ attempt = 0
    /\ delay_ms = retry_config.min_delay_ms
    /\ outcomes = <<>>
    /\ sleeps = <<>>
    /\ retry_result = NoRetryResult

RetryParked ==
    /\ retry_config = [min_delay_ms |-> 0, backoff_multiplier |-> 10, max_retries |-> 0]
    /\ attempt = 0
    /\ delay_ms = 0
    /\ outcomes = <<>>
    /\ sleeps = <<>>
    /\ retry_result = NoRetryResult

\* rate_limiter.rs:106: the guard of the retrying arm.
MayRetryMutant(n, cfg) == n <= cfg.max_retries
MayRetry(n, cfg) == n < cfg.max_retries

\* rate_limiter.rs:118-119: the next delay.
NextDelay(ms, cfg) ==
    LET product == (ms * cfg.backoff_multiplier) \div 10
        as_u64 == IF product < 0 THEN 0 ELSE product
    IN  IF as_u64 < DelayCapMs THEN as_u64 ELSE DelayCapMs

\* rate_limiter.rs:104-105: f() returns Ok, and so does retry_with_backoff.
RetryOk ==
    /\ retry_result.kind = "none"
    /\ outcomes' = Append(outcomes, "ok")
    /\ retry_result' = [kind |-> "ok", of_call |-> Len(outcomes')]
    /\ UNCHANGED <<retry_config, attempt, delay_ms, sleeps>>
    /\ UNCHANGED notRetry

\* rate_limiter.rs:106-120: f() returns Err with retries left: the sleep of
\* delay_ms, then the next delay.
RetryErrAgain ==
    /\ retry_result.kind = "none"
    /\ MayRetry(attempt, retry_config)
    /\ outcomes' = Append(outcomes, "err")
    /\ attempt' = attempt + 1
    /\ sleeps' = Append(sleeps, delay_ms)
    /\ delay_ms' = NextDelay(delay_ms, retry_config)
    /\ UNCHANGED <<retry_config, retry_result>>
    /\ UNCHANGED notRetry

\* rate_limiter.rs:121-124: f() returns Err with no retry left.
RetryErrLast ==
    /\ retry_result.kind = "none"
    /\ ~MayRetry(attempt, retry_config)
    /\ outcomes' = Append(outcomes, "err")
    /\ retry_result' = [kind |-> "err", of_call |-> Len(outcomes')]
    /\ UNCHANGED <<retry_config, attempt, delay_ms, sleeps>>
    /\ UNCHANGED notRetry

RetryNext ==
    \/ RetryOk
    \/ RetryErrAgain
    \/ RetryErrLast

-----------------------------------------------------------------------------
(* is_safe_for_parallel applied to function names (parallel_execution.rs). *)

Str_tool == <<"t", "o", "o", "l">>
Str_fs == <<"f", "s">>
Str_mcp1 == <<"m", "c", "p", "_">>
Str_write == <<"_", "w", "r", "i", "t", "e">>
Str_exec == <<"_", "e", "x", "e", "c">>

\* The function names tried: the names of parallel_execution.rs:75-90 and the
\* names built from a prefix, a tool name and an operation.
NamePrefixes == {<< >>, Str_mcp, Str_mcp1}
NameTools == {<< >>, Str_tool, Str_fs, <<"x">>}
NameOps ==
    {<< >>, Str_read, Str_get, Str_list, Str_search, Str_status, Str_write, Str_exec}
FunctionNames ==
    {Str_read_file, Str_list_files, Str_search_files, Str_glob_files,
     Str_shell, Str_container_exec, Str_apply_patch, Str_update_plan}
    \cup {p \o t \o o : p \in NamePrefixes, t \in NameTools, o \in NameOps}

NamesInit ==
    /\ called_name \in FunctionNames
    /\ safe_for_parallel = "none"

NamesParked ==
    /\ called_name = << >>
    /\ safe_for_parallel = "none"

\* parallel_execution.rs:72-93: the call is_safe_for_parallel(called_name).
IsSafeForParallel ==
    /\ safe_for_parallel = "none"
    /\ safe_for_parallel' = IF is_safe_for_parallel(called_name) THEN "true" ELSE "false"
    /\ UNCHANGED called_name
    /\ UNCHANGED notNames

NamesNext == IsSafeForParallel

-----------------------------------------------------------------------------
(* is_rate_limit_error applied to error messages (rate_limiter.rs).  A     *)
(* message is the sequence of its characters.                              *)

Str_rate_limit == <<"r", "a", "t", "e", " ", "l", "i", "m", "i", "t">>
Str_Rate_limit == <<"R", "a", "t", "e", " ", "l", "i", "m", "i", "t">>
Str_Rate_Limit == <<"R", "a", "t", "e", " ", "L", "i", "m", "i", "t">>
Str_RATE_LIMIT == <<"R", "A", "T", "E", " ", "L", "I", "M", "I", "T">>
Str_429 == <<"4", "2", "9">>
Str_too_many_requests == <<"t", "o", "o", " ", "m", "a", "n", "y", " ", "r", "e", "q", "u", "e", "s", "t", "s">>
Str_Too_Many_Requests == <<"T", "o", "o", " ", "M", "a", "n", "y", " ", "R", "e", "q", "u", "e", "s", "t", "s">>
Str_Too_many_requests == <<"T", "o", "o", " ", "m", "a", "n", "y", " ", "r", "e", "q", "u", "e", "s", "t", "s">>
Str_TOO_MANY_REQUESTS == <<"T", "O", "O", " ", "M", "A", "N", "Y", " ", "R", "E", "Q", "U", "E", "S", "T", "S">>
Str_timeout == <<"t", "i", "m", "e", "o", "u", "t">>
Str_rate == <<"r", "a", "t", "e">>
Str_42_9 == <<"4", "2", " ", "9">>
Str_HTTP == <<"H", "T", "T", "P", " ">>
Str_error == <<"E", "r", "r", "o", "r", ":", " ">>
Str_exceeded == <<" ", "e", "x", "c", "e", "e", "d", "e", "d">>
Str_bang == <<"!">>

\* rate_limiter.rs:129-136.
is_rate_limit_error(error_msg) ==
    \/ Contains(error_msg, Str_rate_limit)
    \/ Contains(error_msg, Str_Rate_limit)
    \/ Contains(error_msg, Str_429)
    \/ Contains(error_msg, Str_too_many_requests)
    \/ Contains(error_msg, Str_Too_Many_Requests)

\* The messages tried: a phrase, in several capitalisations, between a
\* prefix and a suffix.
MsgPrefixes == {<< >>, Str_HTTP, Str_error}
MsgPhrases ==
    {Str_rate_limit, Str_Rate_limit, Str_Rate_Limit, Str_RATE_LIMIT, Str_429,
     Str_too_many_requests, Str_Too_Many_Requests, Str_Too_many_requests,
     Str_TOO_MANY_REQUESTS, Str_timeout, Str_rate, Str_42_9}
MsgSuffixes == {<< >>, Str_exceeded, Str_bang}
ErrorMessages == {p \o m \o x : p \in MsgPrefixes, m \in MsgPhrases, x \in MsgSuffixes}

ErrsInit ==
    /\ msg \in ErrorMessages
    /\ rate_limit_error = "none"

ErrsParked ==
    /\ msg = << >>
    /\ rate_limit_error = "none"

\* rate_limiter.rs:130-136: the call is_rate_limit_error(msg).
IsRateLimitError ==
    /\ rate_limit_error = "none"
    /\ rate_limit_error' = IF is_rate_limit_error(msg) THEN "true" ELSE "false"
    /\ UNCHANGED msg
    /\ UNCHANGED notErrs

ErrsNext == IsRateLimitError

-----------------------------------------------------------------------------
(* The process-wide limiter shared by the tasks of execute_parallel and by  *)
(* update_rate_limit_config: the RwLock around RATE_LIMITER                 *)
(* (parallel_execution.rs:10-15, 65-69), the tasks of                       *)
(* parallel_executor.rs:77-115 and RateLimiter::acquire.  The RwLock is     *)
(* tokio's: requests are served first in, first out, and a waiting writer   *)
(* holds back the readers that come after it.  The event receiver keeps     *)
(* draining, so that the send of the progress event always completes.       *)

Workers == 1..MaxWorkers

\* The requester id of update_rate_limit_config in the queue of the RwLock.
Updater == 0

\* The limiter inside the RwLock: the latest RateLimiter::new(config).
CurrentLimiter == Len(limiter_cfgs)

SharedInit ==
    /\ n_items \in 0..MaxWorkers
    /\ caller_pc = "spawn"
    /\ worker = [i \in Workers |-> "none"]
    /\ rw_readers = {}
    /\ rw_queue = << >>
    /\ limiter_cfgs \in {<<m>> : m \in 1..MaxPermits}
    /\ sem_permits = limiter_cfgs
    /\ time_lock = <<0>>
    /\ permit_of = [i \in Workers |-> 0]
    /\ done_count = [count |-> 0, holder |-> 0]
    /\ updater = [pc |-> "idle", max_concurrent_calls |-> 0]

SharedParked ==
    /\ n_items = 0
    /\ caller_pc = "spawn"
    /\ worker = [i \in Workers |-> "none"]
    /\ rw_readers = {}
    /\ rw_queue = << >>
    /\ limiter_cfgs = <<1>>
    /\ sem_permits = <<1>>
    /\ time_lock = <<0>>
    /\ permit_of = [i \in Workers |-> 0]
    /\ done_count = [count |-> 0, holder |-> 0]
    /\ updater = [pc |-> "idle", max_concurrent_calls |-> 0]

\* parallel_executor.rs:70-118: the loop spawns the task of the next item.
SpawnWorker(i) ==
    /\ caller_pc = "spawn"
    /\ i <= n_items
    /\ worker[i] = "none"
    /\ \A j \in Workers : j < i => worker[j] # "none"
    /\ worker' = [worker EXCEPT ![i] = "spawned"]
    /\ UNCHANGED <<n_items, caller_pc, rw_readers, rw_queue, limiter_cfgs, sem_permits,
                   time_lock, permit_of, done_count, updater>>
    /\ UNCHANGED notShared

\* parallel_executor.rs:70, 121: the loop is over, join_all is awaited.
CallerAwaitsJoin ==
    /\ caller_pc = "spawn"
    /\ \A j \in Workers : j <= n_items => worker[j] # "none"
    /\ caller_pc' = "join"
    /\ UNCHANGED <<n_items, worker, rw_readers, rw_queue, limiter_cfgs, sem_permits,
                   time_lock, permit_of, done_count, updater>>
    /\ UNCHANGED notShared

\* parallel_executor.rs:79: limiter.read() is called; the request joins the
\* queue of the RwLock.
WorkerReadForPermit(i) ==
    /\ worker[i] = "spawned"
    /\ rw_queue' = Append(rw_queue, i)
    /\ worker' = [worker EXCEPT ![i] = "read_for_permit"]
    /\ UNCHANGED <<n_items, caller_pc, rw_readers, limiter_cfgs, sem_permits,
                   time_lock, permit_of, done_count, updater>>
    /\ UNCHANGED notShared

\* tokio RwLock: the request at the head of the queue is a read; it gets the
\* lock (the writer never holds it across a step).
ReadGranted(i) == rw_queue # << >> /\ Head(rw_queue) = i

\* parallel_executor.rs:79: the read guard is there; acquire() is entered
\* and the guard lives until acquire() has returned.
WorkerEntersAcquire(i) ==
    /\ worker[i] = "read_for_permit"
    /\ ReadGranted(i)
    /\ rw_queue' = Tail(rw_queue)
    /\ rw_readers' = rw_readers \cup {i}
    /\ worker' = [worker EXCEPT ![i] = "semaphore"]
    /\ UNCHANGED <<n_items, caller_pc, limiter_cfgs, sem_permits,
                   time_lock, permit_of, done_count, updater>>
    /\ UNCHANGED notShared

\* rate_limiter.rs:54: acquire_owned on the semaphore of the limiter inside
\* the lock.
WorkerPermit(i) ==
    /\ worker[i] = "semaphore"
    /\ sem_permits[CurrentLimiter] > 0
    /\ sem_permits' = [sem_permits EXCEPT ![CurrentLimiter] = @ - 1]
    /\ permit_of' = [permit_of EXCEPT ![i] = CurrentLimiter]
    /\ worker' = [worker EXCEPT ![i] = "last_call_time"]
    /\ UNCHANGED <<n_items, caller_pc, rw_readers, rw_queue, limiter_cfgs,
                   time_lock, done_count, updater>>
    /\ UNCHANGED notShared

\* rate_limiter.rs:58: last_call_time is locked.
WorkerLocksTime(i) ==
    /\ worker[i] = "last_call_time"
    /\ time_lock[CurrentLimiter] = 0
    /\ time_lock' = [time_lock EXCEPT ![CurrentLimiter] = i]
    /\ worker' = [worker EXCEPT ![i] = "pacing"]
    /\ UNCHANGED <<n_items, caller_pc, rw_readers, rw_queue, limiter_cfgs, sem_permits,
                   permit_of, done_count, updater>>
    /\ UNCHANGED notShared

\* rate_limiter.rs:59-72, parallel_executor.rs:79: the sleep is over, the
\* instant is written, acquire() returns the permit and the statement ends:
\* the mutex guard and the read guard are dropped.
WorkerLeavesAcquire(i) ==
    /\ worker[i] = "pacing"
    /\ time_lock' = [time_lock EXCEPT ![CurrentLimiter] = 0]
    /\ rw_readers' = rw_readers \ {i}
    /\ worker' = [worker EXCEPT ![i] = "permit"]
    /\ UNCHANGED <<n_items, caller_pc, rw_queue, limiter_cfgs, sem_permits,
                   permit_of, done_count, updater>>
    /\ UNCHANGED notShared

\* parallel_executor.rs:82: limiter.read() is called again, with the permit
\* in hand.
WorkerReadForConfig(i) ==
    /\ worker[i] = "permit"
    /\ rw_queue' = Append(rw_queue, i)
    /\ worker' = [worker EXCEPT ![i] = "read_for_config"]
    /\ UNCHANGED <<n_items, caller_pc, rw_readers, limiter_cfgs, sem_permits,
                   time_lock, permit_of, done_count, updater>>
    /\ UNCHANGED notShared

\* parallel_executor.rs:82-86: the read guard is there, the config is cloned,
\* the guard is dropped and retry_with_backoff runs the executor.
WorkerClonesConfig(i) ==
    /\ worker[i] = "read_for_config"
    /\ ReadGranted(i)
    /\ rw_queue' = Tail(rw_queue)
    /\ worker' = [worker EXCEPT ![i] = "executing"]
    /\ UNCHANGED <<n_items, caller_pc, rw_readers, limiter_cfgs, sem_permits,
                   time_lock, permit_of, done_count, updater>>
    /\ UNCHANGED notShared

\* parallel_executor.rs:83-86: the executor invocations have terminated.
WorkerExecuted(i) ==
    /\ worker[i] = "executing"
    /\ worker' = [worker EXCEPT ![i] = "executed"]
    /\ UNCHANGED <<n_items, caller_pc, rw_readers, rw_queue, limiter_cfgs, sem_permits,
                   time_lock, permit_of, done_count, updater>>
    /\ UNCHANGED notShared

\* parallel_executor.rs:89-91: the counter is locked and incremented.
WorkerCounts(i) ==
    /\ worker[i] = "executed"
    /\ done_count.holder = 0
    /\ done_count' = [count |-> done_count.count + 1, holder |-> i]
    /\ worker' = [worker EXCEPT ![i] = "counted"]
    /\ UNCHANGED <<n_items, caller_pc, rw_readers, rw_queue, limiter_cfgs, sem_permits,
                   time_lock, permit_of, updater>>
    /\ UNCHANGED notShared

\* parallel_executor.rs:94-115: the progress event is sent and the task
\* ends; the guard of the counter and the permit are dropped. The permit
\* goes back to the semaphore it came from.
WorkerEnds(i) ==
    /\ worker[i] = "counted"
    /\ done_count' = [done_count EXCEPT !.holder = 0]
    /\ sem_permits' = [sem_permits EXCEPT ![permit_of[i]] = @ + 1]
    /\ permit_of' = [permit_of EXCEPT ![i] = 0]
    /\ worker' = [worker EXCEPT ![i] = "finished"]
    /\ UNCHANGED <<n_items, caller_pc, rw_readers, rw_queue, limiter_cfgs,
                   time_lock, updater>>
    /\ UNCHANGED notShared

\* parallel_executor.rs:121-167: join_all has every result and the call returns.
CallerReturns ==
    /\ caller_pc = "join"
    /\ \A j \in Workers : j <= n_items => worker[j] = "finished"
    /\ caller_pc' = "returned"
    /\ UNCHANGED <<n_items, worker, rw_readers, rw_queue, limiter_cfgs, sem_permits,
                   time_lock, permit_of, done_count, updater>>
    /\ UNCHANGED notShared

\* parallel_execution.rs:66-67: update_rate_limit_config(config) calls
\* RATE_LIMITER.write(); the request joins the queue of the RwLock.
UpdateWrite(m) ==
    /\ updater.pc = "idle"
    /\ Len(limiter_cfgs) <= MaxUpdates
    /\ rw_queue' = Append(rw_queue, Updater)
    /\ updater' = [pc |-> "write", max_concurrent_calls |-> m]
    /\ UNCHANGED <<n_items, caller_pc, worker, rw_readers, limiter_cfgs, sem_permits,
                   time_lock, permit_of, done_count>>
    /\ UNCHANGED notShared

\* parallel_execution.rs:67-69: the write request is at the head of the queue
\* and no read guard is left; the limiter is replaced by
\* RateLimiter::new(config), with a semaphore and a mutex of its own, and
\* the write guard is dropped.
UpdateInstalls ==
    /\ updater.pc = "write"
    /\ rw_queue # << >> /\ Head(rw_queue) = Updater
    /\ rw_readers = {}
    /\ rw_queue' = Tail(rw_queue)
    /\ limiter_cfgs' = Append(limiter_cfgs, updater.max_concurrent_calls)
    /\ sem_permits' = Append(sem_permits, updater.max_concurrent_calls)
    /\ time_lock' = Append(time_lock, 0)
    /\ updater' = [pc |-> "idle", max_concurrent_calls |-> 0]
    /\ UNCHANGED <<n_items, caller_pc, worker, rw_readers, permit_of, done_count>>
    /\ UNCHANGED notShared

SharedNext ==
    \/ \E i \in Workers : SpawnWorker(i)
    \/ CallerAwaitsJoin
    \/ \E i \in Workers : WorkerReadForPermit(i)
    \/ \E i \in Workers : WorkerEntersAcquire(i)
    \/ \E i \in Workers : WorkerPermit(i)
    \/ \E i \in Workers : WorkerLocksTime(i)
    \/ \E i \in Workers : WorkerLeavesAcquire(i)
    \/ \E i \in Workers : WorkerReadForConfig(i)
    \/ \E i \in Workers : WorkerClonesConfig(i)
    \/ \E i \in Workers : WorkerExecuted(i)
    \/ \E i \in Workers : WorkerCounts(i)
    \/ \E i \in Workers : WorkerEnds(i)
    \/ CallerReturns
    \/ \E m \in 1..MaxPermits : UpdateWrite(m)
    \/ UpdateInstalls

-----------------------------------------------------------------------------
(* ParallelBatcher (parallel_batch.rs): items are added one at a time, the
   owner asks whether the batch should be processed and takes the items.
   Time is in milliseconds. *)

MaxBatchAdds == 11     \* add_item calls made in one run
MaxBatchClock == 100   \* the clock stops here

max_batch_size == 10
batch_timeout == 100

BatchItemKinds == {"FunctionCall", "Message"}
NoInstant == [some |-> FALSE, at |-> 0]
Instant(t) == [some |-> TRUE, at |-> t]

\* parallel_batch.rs:17-24
BatchInit ==
    /\ batch_items = << >>
    /\ last_item_time = NoInstant
    /\ batch_now = 0
    /\ batch_adds = 0
    /\ batch_ready = "none"
    /\ batch_taken = << >>
    /\ batch_takes = 0

BatchParked ==
    /\ batch_items = << >>
    /\ last_item_time = NoInstant
    /\ batch_now = 0
    /\ batch_adds = MaxBatchAdds + 1
    /\ batch_ready = "none"
    /\ batch_taken = << >>
    /\ batch_takes = 0

\* parallel_batch.rs:33-53
should_process_batch(b_items, b_last, b_now) ==
    IF b_items = << >> THEN FALSE
    ELSE IF Len(b_items) >= max_batch_size THEN TRUE
    ELSE IF b_last.some /\ b_now - b_last.at >= batch_timeout THEN TRUE
    ELSE FALSE

\* parallel_batch.rs:27-30
AddItem(item) ==
    /\ batch_adds < MaxBatchAdds
    /\ batch_adds' = batch_adds + 1
    /\ batch_items' = Append(batch_items, item)
    /\ last_item_time' = Instant(batch_now)
    /\ batch_ready' = "none"
    /\ UNCHANGED <<batch_now, batch_taken, batch_takes>>
    /\ UNCHANGED notBatch

\* parallel_batch.rs:33-53: the owner asks whether the batch is due.
ShouldProcessBatch ==
    /\ batch_adds <= MaxBatchAdds
    /\ batch_ready = "none"
    /\ batch_ready' = IF should_process_batch(batch_items, last_item_time, batch_now)
                      THEN "true" ELSE "false"
    /\ UNCHANGED <<batch_items, last_item_time, batch_now, batch_adds, batch_taken, batch_takes>>
    /\ UNCHANGED notBatch

\* parallel_batch.rs:68-71
TakeItems ==
    /\ batch_adds <= MaxBatchAdds
    /\ batch_takes = 0
    /\ last_item_time' = NoInstant
    /\ batch_taken' = batch_items
    /\ batch_items' = << >>
    /\ batch_takes' = batch_takes + 1
    /\ batch_ready' = "none"
    /\ UNCHANGED <<batch_now, batch_adds>>
    /\ UNCHANGED notBatch

\* Time passes between the calls.
BatchElapse ==
    /\ batch_adds <= MaxBatchAdds
    /\ batch_now + batch_timeout \div 2 <= MaxBatchClock
    /\ batch_now' = batch_now + batch_timeout \div 2
    /\ batch_ready' = "none"
    /\ UNCHANGED <<batch_items, last_item_time, batch_adds, batch_taken, batch_takes>>
    /\ UNCHANGED notBatch

BatchNext ==
    \/ \E item \in BatchItemKinds : AddItem(item)
    \/ ShouldProcessBatch
    \/ TakeItems
    \/ BatchElapse

-----------------------------------------------------------------------------
(* Backtrack in the transcript overlay (tui/src/app_backtrack.rs,
   tui/src/pager_overlay.rs). The transcript is a sequence of messages; the
   helpers of backtrack_helpers count its user messages from the end. *)

MaxMessages == 3     \* messages of the transcript
MaxKeyPresses == 6   \* key presses handled in one run

UserTexts == {"first", "second"}
TranscriptMessages ==
    [who : {"user"}, text : UserTexts] \cup {[who |-> "agent", text |-> "reply"]}
Transcripts == UNION {[1..k -> TranscriptMessages] : k \in 0..MaxMessages}

\* app_backtrack.rs:14-26: BacktrackState::default()
NoUuid == "None"
NoPending == [some |-> FALSE, base_id |-> NoUuid, drop_count |-> 0, prefill |-> ""]
DefaultBacktrackState ==
    [primed |-> FALSE, base_id |-> NoUuid, count |-> 0,
     overlay_preview_active |-> FALSE, pending |-> NoPending]

\* The places of the user messages of a transcript, the last one first.
RECURSIVE UserPlacesFromEnd(_)
UserPlacesFromEnd(t_lines) ==
    IF t_lines = << >> THEN << >>
    ELSE LET k == Len(t_lines)
             rest == UserPlacesFromEnd(SubSeq(t_lines, 1, k - 1))
         IN  IF t_lines[k].who = "user" THEN <<k>> \o rest ELSE rest

\* backtrack_helpers::nth_last_user_text: the text of the nth last user
\* message, "" with some = FALSE when there is none.
nth_last_user_text(t_lines, nth) ==
    LET places == UserPlacesFromEnd(t_lines)
    IN  IF nth >= 1 /\ nth <= Len(places)
        THEN [some |-> TRUE, text |-> t_lines[places[nth]].text]
        ELSE [some |-> FALSE, text |-> ""]

\* backtrack_helpers::normalize_backtrack_n: a step past the first user
\* message starts again at the last one.
normalize_backtrack_n(t_lines, nth) ==
    LET places == UserPlacesFromEnd(t_lines)
    IN  IF nth = 0 THEN 0
        ELSE IF nth <= Len(places) THEN nth
        ELSE IF Len(places) >= 1 THEN 1
        ELSE 0

\* backtrack_helpers::highlight_range_for_nth_last_user: the message
\* highlighted, 0 for none.
highlight_range_for_nth_last_user(t_lines, nth) ==
    LET places == UserPlacesFromEnd(t_lines)
    IN  IF nth >= 1 /\ nth <= Len(places) THEN places[nth] ELSE 0

TuiKeys == {"Esc", "Enter", "q", "Down"}

TuiInit ==
    /\ transcript_lines \in Transcripts
    /\ overlay = "None"
    /\ highlight_range = 0
    /\ backtrack = DefaultBacktrackState
    /\ app_event_tx = << >>
    /\ key_presses = 0

TuiParked ==
    /\ transcript_lines = << >>
    /\ overlay = "None"
    /\ highlight_range = 0
    /\ backtrack = DefaultBacktrackState
    /\ app_event_tx = << >>
    /\ key_presses = MaxKeyPresses + 1

\* app_backtrack.rs:187-213: the backtrack state and the highlight after
\* step_backtrack_and_highlight, from the state before and the overlay.
step_backtrack_and_highlight(bt, ov, hl) ==
    IF ov = "Transcript"
    THEN LET nn == normalize_backtrack_n(transcript_lines, bt.count)
             range == highlight_range_for_nth_last_user(transcript_lines, nn)
         IN  [bt |-> [bt EXCEPT !.count = nn],
              hl |-> IF range # 0 THEN range ELSE hl]
    ELSE [bt |-> bt, hl |-> hl]

\* app_backtrack.rs:216-224 with pager_overlay.rs:218-249: the overlay after
\* an event is forwarded to it; q closes it.
overlay_forward_event(ov, key) ==
    IF ov # "None" /\ key = "q" THEN "None" ELSE ov

\* app_backtrack.rs:169-184: the state after overlay_confirm_backtrack.
overlay_confirm_backtrack(bt, ov, tx) ==
    LET found == IF ov = "Transcript"
                 THEN nth_last_user_text(transcript_lines, bt.count)
                 ELSE [some |-> FALSE, text |-> ""]
        requested == found.some /\ bt.base_id # NoUuid
    IN  \* request_backtrack (93-104) stages the pending fork and sends
        \* GetHistory; close_overlay and reset_backtrack follow.
        [bt |-> DefaultBacktrackState,
         ov |-> "None",
         tx |-> IF requested THEN Append(tx, "GetHistory") ELSE tx]

\* app_backtrack.rs:33-76: an event while the transcript overlay is shown.
HandleBacktrackOverlayEvent(key) ==
    /\ key_presses < MaxKeyPresses
    /\ overlay = "Transcript"
    /\ key_presses' = key_presses + 1
    /\ IF backtrack.overlay_preview_active
       THEN IF key = "Esc"
            THEN LET stepped == step_backtrack_and_highlight(
                                    [backtrack EXCEPT !.count = backtrack.count + 1],
                                    overlay, highlight_range)
                 IN  /\ backtrack' = stepped.bt
                     /\ highlight_range' = stepped.hl
                     /\ overlay' = overlay_forward_event(overlay, key)
                     /\ UNCHANGED app_event_tx
            ELSE IF key = "Enter"
            THEN LET confirmed == overlay_confirm_backtrack(backtrack, overlay, app_event_tx)
                 IN  /\ backtrack' = confirmed.bt
                     /\ overlay' = confirmed.ov
                     /\ app_event_tx' = confirmed.tx
                     /\ UNCHANGED highlight_range
            ELSE /\ overlay' = overlay_forward_event(overlay, key)
                 /\ UNCHANGED <<backtrack, highlight_range, app_event_tx>>
       ELSE IF key = "Esc"
            THEN \* begin_overlay_backtrack_preview (152-159)
                 LET stepped == step_backtrack_and_highlight(
                                    [backtrack EXCEPT !.primed = TRUE, !.count = 1,
                                                      !.overlay_preview_active = TRUE],
                                    overlay, highlight_range)
                 IN  /\ backtrack' = stepped.bt
                     /\ highlight_range' = stepped.hl
                     /\ UNCHANGED <<overlay, app_event_tx>>
            ELSE /\ overlay' = overlay_forward_event(overlay, key)
                 /\ UNCHANGED <<backtrack, highlight_range, app_event_tx>>
    /\ UNCHANGED transcript_lines
    /\ UNCHANGED notTui

\* app_backtrack.rs:79-91: Esc in the main view, no overlay shown.
HandleBacktrackEscKey(composer_is_empty) ==
    /\ key_presses < MaxKeyPresses
    /\ overlay = "None"
    /\ key_presses' = key_presses + 1
    /\ IF ~composer_is_empty
       THEN UNCHANGED <<backtrack, overlay, highlight_range>>
       ELSE IF ~backtrack.primed
       THEN \* prime_backtrack (132-138)
            /\ backtrack' = [backtrack EXCEPT !.primed = TRUE, !.count = 1]
            /\ UNCHANGED <<overlay, highlight_range>>
       ELSE \* open_backtrack_preview (141-149): a new transcript overlay
            \* has no highlight.
            LET stepped == step_backtrack_and_highlight(
                               [backtrack EXCEPT !.overlay_preview_active = TRUE],
                               "Transcript", 0)
            IN  /\ overlay' = "Transcript"
                /\ backtrack' = stepped.bt
                /\ highlight_range' = stepped.hl
    /\ UNCHANGED <<transcript_lines, app_event_tx>>
    /\ UNCHANGED notTui

\* The user opens the transcript overlay from the main view.
OpenTranscriptOverlay ==
    /\ key_presses < MaxKeyPresses
    /\ overlay = "None"
    /\ key_presses' = key_presses + 1
    /\ overlay' = "Transcript"
    /\ highlight_range' = 0
    /\ UNCHANGED <<transcript_lines, backtrack, app_event_tx>>
    /\ UNCHANGED notTui

TuiNext ==
    \/ \E key \in TuiKeys : HandleBacktrackOverlayEvent(key)
    \/ \E composer_is_empty \in BOOLEAN : HandleBacktrackEscKey(composer_is_empty)
    \/ OpenTranscriptOverlay

-----------------------------------------------------------------------------
(* Specifications.                                                         *)

InitRate == RateInit /\ RolloutParked /\ PtyParked /\ GroupsParked /\ ExecParked /\ DepsParked /\ TurnParked /\ SafeParked
    /\ TruncParked
    /\ RetryParked
    /\ NamesParked
    /\ ErrsParked
    /\ SharedParked
    /\ BatchParked
    /\ TuiParked
SpecRate == InitRate /\ [][RateNext]_vars

InitRollout == RolloutInit /\ RateParked /\ PtyParked /\ GroupsParked /\ ExecParked /\ DepsParked /\ TurnParked /\ SafeParked
    /\ TruncParked
    /\ RetryParked
    /\ NamesParked
    /\ ErrsParked
    /\ SharedParked
    /\ BatchParked
    /\ TuiParked
SpecRollout == InitRollout /\ [][RolloutNext]_vars

InitResume ==
    ResumeInit /\ RateParked /\ PtyParked /\ GroupsParked /\ ExecParked /\ DepsParked
    /\ TurnParked /\ SafeParked /\ TruncParked /\ RetryParked
    /\ NamesParked
    /\ ErrsParked
    /\ SharedParked
    /\ BatchParked
    /\ TuiParked
SpecResume == InitResume /\ [][ResumeNext]_vars

InitAppend ==
    AppendInit /\ RateParked /\ PtyParked /\ GroupsParked /\ ExecParked /\ DepsParked
    /\ TurnParked /\ SafeParked /\ TruncParked /\ RetryParked
    /\ NamesParked
    /\ ErrsParked
    /\ SharedParked
    /\ BatchParked
    /\ TuiParked
SpecAppend == InitAppend /\ [][AppendNext]_vars

InitPty == PtyInit /\ RateParked /\ RolloutParked /\ GroupsParked /\ ExecParked /\ DepsParked /\ TurnParked /\ SafeParked
    /\ TruncParked
    /\ RetryParked
    /\ NamesParked
    /\ ErrsParked
    /\ SharedParked
    /\ BatchParked
    /\ TuiParked
SpecPty == InitPty /\ [][PtyNext]_vars

InitGroups == GroupsInit /\ RateParked /\ RolloutParked /\ PtyParked /\ ExecParked /\ DepsParked /\ TurnParked /\ SafeParked
    /\ TruncParked
    /\ RetryParked
    /\ NamesParked
    /\ ErrsParked
    /\ SharedParked
    /\ BatchParked
    /\ TuiParked
SpecGroups == InitGroups /\ [][GroupsNext]_vars

InitExec == ExecInit /\ RateParked /\ RolloutParked /\ PtyParked /\ GroupsParked /\ DepsParked /\ TurnParked /\ SafeParked
    /\ TruncParked
    /\ RetryParked
    /\ NamesParked
    /\ ErrsParked
    /\ SharedParked
    /\ BatchParked
    /\ TuiParked
SpecExec == InitExec /\ [][ExecNext]_vars

InitDeps ==
    DepsInit /\ RateParked /\ RolloutParked /\ PtyParked /\ GroupsParked /\ ExecParked /\ TurnParked /\ SafeParked
    /\ TruncParked
    /\ RetryParked
    /\ NamesParked
    /\ ErrsParked
    /\ SharedParked
    /\ BatchParked
    /\ TuiParked
SpecDeps == InitDeps /\ [][DepsNext]_vars

\* The function runs: its loop goes on while a pass is left to make.
InitDepsFair ==
    DepsInitSingle /\ RateParked /\ RolloutParked /\ PtyParked /\ GroupsParked /\ ExecParked /\ TurnParked /\ SafeParked
    /\ TruncParked
    /\ RetryParked
    /\ NamesParked
    /\ ErrsParked
    /\ SharedParked
    /\ BatchParked
    /\ TuiParked
SpecDepsFair == InitDepsFair /\ [][DepsNext]_vars /\ WF_vars(DepsNext)

InitTurn ==
    TurnInit /\ RateParked /\ RolloutParked /\ PtyParked /\ GroupsParked /\ ExecParked /\ DepsParked
    /\ SafeParked
    /\ TruncParked
    /\ RetryParked
    /\ NamesParked
    /\ ErrsParked
    /\ SharedParked
    /\ BatchParked
    /\ TuiParked
SpecTurn == InitTurn /\ [][TurnNext]_vars

InitSafe ==
    SafeInit /\ RateParked /\ RolloutParked /\ PtyParked /\ GroupsParked /\ ExecParked
    /\ DepsParked /\ TurnParked
    /\ TruncParked
    /\ RetryParked
    /\ NamesParked
    /\ ErrsParked
    /\ SharedParked
    /\ BatchParked
    /\ TuiParked
SpecSafe == InitSafe /\ [][SafeNext]_vars

InitTrunc ==
    TruncInit /\ RolloutParked /\ PtyParked /\ GroupsParked /\ ExecParked /\ DepsParked
    /\ TurnParked /\ SafeParked /\ RateParked
    /\ RetryParked
    /\ NamesParked
    /\ ErrsParked
    /\ SharedParked
    /\ BatchParked
    /\ TuiParked
SpecTrunc == InitTrunc /\ [][TruncNext]_vars

InitRetry ==
    RetryInit /\ RolloutParked /\ PtyParked /\ GroupsParked /\ ExecParked /\ DepsParked
    /\ TurnParked /\ SafeParked /\ TruncParked /\ RateParked
    /\ NamesParked
    /\ ErrsParked
    /\ SharedParked
    /\ BatchParked
    /\ TuiParked
SpecRetry == InitRetry /\ [][RetryNext]_vars

InitNames ==
    NamesInit /\ RolloutParked /\ PtyParked /\ GroupsParked /\ ExecParked /\ DepsParked
    /\ TurnParked /\ SafeParked /\ TruncParked /\ RetryParked /\ RateParked
    /\ ErrsParked
    /\ SharedParked
    /\ BatchParked
    /\ TuiParked
SpecNames == InitNames /\ [][NamesNext]_vars

InitErrs ==
    ErrsInit /\ RolloutParked /\ PtyParked /\ GroupsParked /\ ExecParked /\ DepsParked
    /\ TurnParked /\ SafeParked /\ TruncParked /\ RetryParked /\ NamesParked /\ RateParked
    /\ SharedParked
    /\ BatchParked
    /\ TuiParked
SpecErrs == InitErrs /\ [][ErrsNext]_vars

InitShared ==
    SharedInit /\ RolloutParked /\ PtyParked /\ GroupsParked /\ ExecParked /\ DepsParked
    /\ TurnParked /\ SafeParked /\ TruncParked /\ RetryParked /\ NamesParked /\ ErrsParked /\ RateParked
    /\ BatchParked
    /\ TuiParked
SpecShared == InitShared /\ [][SharedNext]_vars

\* Every task, the caller and update_rate_limit_config run on the tokio
\* runtime, which polls a task that can go on.
SpecSharedFair == SpecShared /\ WF_vars(SharedNext)

InitBatch ==
    BatchInit /\ RolloutParked /\ PtyParked /\ GroupsParked /\ ExecParked /\ DepsParked
    /\ TurnParked /\ SafeParked /\ TruncParked /\ RetryParked /\ NamesParked /\ ErrsParked /\ SharedParked /\ RateParked
    /\ TuiParked
SpecBatch == InitBatch /\ [][BatchNext]_vars

InitTui ==
    TuiInit /\ RolloutParked /\ PtyParked /\ GroupsParked /\ ExecParked /\ DepsParked
    /\ TurnParked /\ SafeParked /\ TruncParked /\ RetryParked /\ NamesParked /\ ErrsParked /\ SharedParked /\ BatchParked /\ RateParked
SpecTui == InitTui /\ [][TuiNext]_vars

-----------------------------------------------------------------------------
(* Claims.                                                                 *)

\* Permits returned by acquire() and not yet dropped.
Outstanding == {t \in Tasks : acq[t] = "held"}

\* C1: the permits returned by acquire() and not yet dropped never number
\* more than max_concurrent_calls, and an acquire() returns only when fewer
\* than max_concurrent_calls permits are outstanding.
C1_Capacity ==
    /\ [](Cardinality(Outstanding) <= config.max_concurrent_calls)
    /\ [][\A t \in Tasks :
            (acq[t] # "held" /\ acq'[t] = "held")
                => Cardinality(Outstanding) < config.max_concurrent_calls]_vars

\* A task waits in acquire() while max_concurrent_calls permits are outstanding.
C1_Witness ==
    /\ Cardinality(Outstanding) = config.max_concurrent_calls
    /\ \E t \in Tasks : acq[t] = "sem"

\* C2: any two permits granted by one RateLimiter have grant times at least
\* min_delay_ms apart.
C2_Spacing ==
    \A i \in DOMAIN grants : \A j \in DOMAIN grants :
        i < j => grants[j] - grants[i] >= config.min_delay_ms

\* Two tasks were inside acquire() together and both got their permit.
C2_Witness ==
    /\ Len(grants) >= 2
    /\ config.min_delay_ms > 0
    /\ config.max_concurrent_calls >= 2
    /\ Cardinality(Outstanding) >= 2

\* The items of the item lines of the file, in file order.
ItemLines == ResumeItems(file)

IsPrefix(a, b) == Len(a) <= Len(b) /\ SubSeq(b, 1, Len(a)) = a

Range(seq) == {seq[i] : i \in DOMAIN seq}

\* C3: at every moment the item lines of the rollout file are a prefix of the
\* recordable items passed to record_items, in call order.
C3_FilePrefix == IsPrefix(ItemLines, recorded)

\* C4: when shutdown() has returned Ok, every item of a record_items call
\* that returned before shutdown() was invoked is in the file.
C4_ShutdownDrains ==
    shutdown.state = "ok" =>
        \A i \in 1..shutdown.mark : ToJson(recorded[i]) \in Range(file)

\* C5: after record_items calls on a fresh recorder and a shutdown() that
\* returned Ok, resume returns exactly the recordable items passed, in order.
C5_ResumeRoundTrip ==
    (shutdown.state = "ok" /\ shutdown.mark = Len(recorded)) =>
        Resume(file) = [ok |-> TRUE, items |-> recorded]

\* C6: once a write or a flush of a journal line has failed the writer task
\* has exited, and a later record_items call with a recordable item fails.
C6_IoFailureStopsWriter ==
    /\ [](io.write_all + io.flush > 0 => writer.pc = "exited")
    /\ [][(writer.pc = "exited" /\ recorded' # recorded) => last_record' = "err"]_vars

\* The requests collecting output of session s.
Subscribers(s) ==
    {c \in Calls : call[c].sid = s /\ call[c].pc \in {"top", "recv", "grace"}}

\* No handler is between its first and its last step.
NoHandlerRunning == \A c \in Calls : call[c].pc \in {"idle", "done"}

\* C7 as stated: a session whose child has exited and that has no
\* subscriber left is no longer in the map once the handlers have returned.
C7_RemovedAfterExit ==
    \A s \in SessionIds :
        (child[s] = "exited" /\ Subscribers(s) = {} /\ NoHandlerRunning)
            => s \notin sessions

\* C7, amended: a session that is in the map stays in the map, also after
\* its child has exited and its last subscriber has returned.
C7_SessionKept == [][\A s \in sessions : s \in sessions']_vars

\* The child of a session in the map has exited, its exit code was taken and
\* every handler has returned.
C7_Witness ==
    \E s \in sessions :
        /\ child[s] = "exited"
        /\ exit_tx[s].state = "taken"
        /\ Subscribers(s) = {}
        /\ NoHandlerRunning
        /\ \E c \in Calls : call[c].pc = "done"

\* The exec_command requests that returned an output.
ExecReturned ==
    {c \in Calls : call[c].kind = "exec" /\ call[c].pc = "done"
                   /\ call[c].result.status # "Error"}

\* C8 as stated: exec_command reports Exited(code) exactly when the exit
\* signal was received before the deadline, and otherwise Ongoing with the
\* id of this call, whose session is in the map.
C8_ExitedIffBeforeDeadline ==
    \A c \in ExecReturned :
        /\ call[c].result.status = "Exited"
                <=> (call[c].exit_code.some /\ call[c].in_time)
        /\ call[c].result.status = "Ongoing"
                => call[c].result.val = call[c].sid /\ call[c].sid \in sessions

\* C8, amended: exec_command reports Exited(code), with the code the waiter
\* sent, exactly when its select took the exit signal, at whatever time; and
\* otherwise Ongoing with the id of this call, whose session is in the map.
C8_ExitedIffReceived ==
    \A c \in ExecReturned :
        /\ call[c].exit_code.some <=> exit_tx[call[c].sid].state = "taken"
        /\ call[c].exit_code.some
                => call[c].result = [status |-> "Exited", val |-> exit_tx[call[c].sid].code]
        /\ ~call[c].exit_code.some
                => /\ call[c].result = [status |-> "Ongoing", val |-> call[c].sid]
                   /\ call[c].sid \in sessions

\* One exec_command took the exit signal at or after its deadline and reported
\* Exited; another one ran into its deadline while its child was running.
C8_Witness ==
    /\ \E c \in ExecReturned :
            call[c].result.status = "Exited" /\ ~call[c].in_time
    /\ \E c \in ExecReturned :
            call[c].result.status = "Ongoing" /\ child[call[c].sid] = "running"

\* The chunks of seq are numbered in increasing order.
Increasing(seq) == \A i \in DOMAIN seq : \A j \in DOMAIN seq : i < j => seq[i] < seq[j]

\* C9: what a request has collected is, in order and without repetition, a
\* selection of the chunks the reader of its session has broadcast; and the
\* step that receives Lagged leaves the request in its collection loop.
C9_Subsequence ==
    /\ [](\A c \in Calls :
            /\ Increasing(call[c].collected)
            /\ \A i \in DOMAIN call[c].collected :
                    call[c].collected[i] \in 1..sent[call[c].sid])
    /\ [][\A c \in Calls :
            (call[c].lagged = 0 /\ call'[c].lagged = 1)
                => /\ call'[c].pc \in {"top", "grace"}
                   /\ call'[c].collected = call[c].collected
                   /\ call'[c].cursor > call[c].cursor]_vars

\* A request was lagged, went on, collected a chunk after that and returned;
\* the chunk is not the first one broadcast.
C9_Witness ==
    \E c \in Calls :
        /\ call[c].lagged = 1
        /\ call[c].pc = "done"
        /\ Len(call[c].collected) >= 1
        /\ call[c].collected[1] > 1

\* The groups of two or more items.
ParallelGroups ==
    {k \in DOMAIN tool_groups : Len(tool_groups[k].items) >= 2}

\* The items that must run alone: the shell call rm -rf /, apply_patch and
\* any LocalShellCall.
MustRunAlone(item) ==
    item = RmRfRoot \/ item = ApplyPatch \/ item.type = "LocalShellCall"

\* C10: every group of two or more items returned by identify_parallel_groups
\* holds only FunctionCall items that pass the parallel-safe predicate, and
\* the shell call rm -rf /, an apply_patch call and a LocalShellCall are
\* alone in their groups.
C10_GroupsSafe ==
    grouped =>
        /\ \A k \in ParallelGroups : \A i \in DOMAIN tool_groups[k].items :
                /\ tool_groups[k].items[i].type = "FunctionCall"
                /\ ParallelSafe(tool_groups[k].items[i])
        /\ \A k \in DOMAIN tool_groups : \A i \in DOMAIN tool_groups[k].items :
                MustRunAlone(tool_groups[k].items[i]) => Len(tool_groups[k].items) = 1

\* A list with two parallel-safe calls followed by rm -rf / was grouped.
C10_Witness ==
    /\ grouped
    /\ ParallelGroups # {}
    /\ Len(response_items) >= 3
    /\ response_items[3] = RmRfRoot
    /\ ParallelSafe(response_items[2])
    /\ is_read_only_tool(response_items[2].name)

RECURSIVE ItemsBefore(_)
\* The number of items in the groups before group k.
ItemsBefore(k) ==
    IF k <= 1 THEN 0 ELSE ItemsBefore(k - 1) + Len(tool_groups[k - 1].items)

\* The group that holds the i-th item of the list.
GroupOf(i) ==
    CHOOSE k \in DOMAIN tool_groups :
        ItemsBefore(k) < i /\ i <= ItemsBefore(k) + Len(tool_groups[k].items)

\* The adjacent pairs of parallel-safe FunctionCall items of the list.
SafePairs ==
    {i \in 1..(Len(response_items) - 1) :
        ParallelSafe(response_items[i]) /\ ParallelSafe(response_items[i + 1])}

\* C11: two adjacent FunctionCall items that both pass the parallel-safe
\* predicate are in the same group.
C11_AdjacentSafeGrouped ==
    grouped => \A i \in SafePairs : GroupOf(i) = GroupOf(i + 1)

\* C12 as stated: the groups produced while the installed configuration has
\* parallel_enabled = false are all singletons.
C12_DisabledSingletons ==
    [][(~RATE_LIMITER.parallel_enabled /\ ~grouped /\ grouped')
            => \A k \in DOMAIN tool_groups' : Len(tool_groups'[k].items) = 1]_vars

\* C12, amended: while the installed configuration has parallel_enabled =
\* false, can_execute_parallel answers false for every group, whatever its
\* items are.
C12_DisabledNeverApproved ==
    [][(~RATE_LIMITER.parallel_enabled /\ approval' # approval)
            => ~approval'.result]_vars

\* With parallel_enabled = false and room for two calls, a group of two
\* parallel-safe calls was refused.
C12_Witness ==
    /\ ~RATE_LIMITER.parallel_enabled
    /\ RATE_LIMITER.max_concurrent_calls >= 2
    /\ approval.group \in ParallelGroups
    /\ Len(tool_groups[approval.group].items) = 2
    /\ ~approval.result

\* The events of one group, in the order C13 gives them.
ExpectedEvent(k) ==
    IF k = 1 THEN "ParallelExecutionStart"
    ELSE IF k <= total_count + 1 THEN "ParallelExecutionProgress"
    ELSE "ParallelExecutionEnd"

NoPanic == \A i \in ExecItems : handles[i].result # "panic"

\* C13: in a call with an event sender and without a panic the events handed
\* to the sender are one ParallelExecutionStart, then one
\* ParallelExecutionProgress per item, then one ParallelExecutionEnd, which
\* comes only when every spawned task has ended.
C13_EventOrder ==
    (event_sender /\ NoPanic) =>
        /\ Len(events) <= total_count + 2
        /\ \A k \in DOMAIN events : events[k].type = ExpectedEvent(k)
        /\ exec_pc = "done" => Len(events) = total_count + 2
        /\ Len(events) = total_count + 2
                => \A i \in ExecItems : handles[i].pc = "finished"

\* A call with a sender and two or more items, none of which panicked, has
\* returned.
C13_Witness ==
    /\ event_sender
    /\ NoPanic
    /\ total_count >= 2
    /\ exec_pc = "done"
    /\ \E i \in ExecItems : handles[i].result = "err"

\* The waves placed by dependency resolution: those before the cycle fallback.
ResolvedWaves ==
    IF cycle_at = 0 THEN DOMAIN execution_groups ELSE 1..(cycle_at - 1)

\* The names of the commands of wave w.
WaveNames(w) == {commands[execution_groups[w][k]].name : k \in DOMAIN execution_groups[w]}

InResolvedWaves ==
    UNION {{execution_groups[w][k] : k \in DOMAIN execution_groups[w]} : w \in ResolvedWaves}

\* The commands the cycle fallback has to emit, in input order.
Stuck == SelectSeq([i \in 1..Len(commands) |-> i], LAMBDA i : i \notin InResolvedWaves)

\* C15: when a pass finds no command with all its dependencies executed, the
\* function returns the waves emitted so far followed by one singleton wave
\* per command left, in input order; each command left has a dependency
\* no resolved wave provides.
C15_CycleFallback ==
    cycle_at # 0 =>
        /\ resolved
        /\ Stuck # << >>
        /\ Len(execution_groups) = cycle_at - 1 + Len(Stuck)
        /\ \A k \in DOMAIN Stuck : execution_groups[cycle_at - 1 + k] = <<Stuck[k]>>
        /\ \A k \in DOMAIN Stuck :
                \E dep \in commands[Stuck[k]].depends_on :
                    \A w \in ResolvedWaves : dep \notin WaveNames(w)

\* A wave was resolved and then two commands that depend on each other were
\* emitted one by one.
C15_Witness ==
    /\ cycle_at = 2
    /\ Len(execution_groups) = 3
    /\ commands[execution_groups[2][1]].name \in commands[execution_groups[3][1]].depends_on
    /\ commands[execution_groups[3][1]].name \in commands[execution_groups[2][1]].depends_on

\* The latest operations are those of tail, in that order.
EndsWith(tail) ==
    Len(ops) >= Len(tail) /\ SubSeq(ops, Len(ops) - Len(tail) + 1, Len(ops)) = tail

\* The input of the k-th latest request.
InputFromEnd(k) == requests[Len(requests) - k + 1].input

\* C16: after compact; send; resume; send the input of the request that
\* followed the compaction is a prefix of the input of the request that
\* followed the resume, and after a further fork; send also of the input of
\* the request that followed the fork.
C16_CompactPrefix ==
    /\ EndsWith(<<"compact", "send", "resume", "send">>)
            => IsPrefix(InputFromEnd(2), InputFromEnd(1))
    /\ EndsWith(<<"compact", "send", "resume", "send", "fork", "send">>)
            => IsPrefix(InputFromEnd(3), InputFromEnd(1))

\* The match of a trusted pattern as C17 words it: the pattern equals the
\* command, or its last element is "*" and the elements before it are the
\* first elements of the command.
ClaimedMatch(pattern, command) ==
    \/ pattern = command
    \/ /\ Len(pattern) >= 1
       /\ pattern[Len(pattern)] = Arg_star
       /\ Len(command) >= Len(pattern) - 1
       /\ \A k \in 1..(Len(pattern) - 1) : command[k] = pattern[k]

\* C17 as stated: is_known_safe_command returns true whenever some trusted
\* pattern of one element or more equals the command, or ends in "*" with the
\* elements before the "*" equal to the first elements of the command.
C17_AnyLengthPattern ==
    (/\ verdict # "none"
     /\ \E k \in DOMAIN user_trusted : ClaimedMatch(user_trusted[k], argv))
    => verdict = "safe"

\* C17, amended: is_known_safe_command returns true whenever some trusted
\* pattern equals the command, or has two elements or more, ends in "*" and
\* the elements before the "*" equal the first elements of the command.
C17_TwoOrMorePattern ==
    (/\ verdict # "none"
     /\ \E k \in DOMAIN user_trusted :
           \/ user_trusted[k] = argv
           \/ Len(user_trusted[k]) >= 2 /\ ClaimedMatch(user_trusted[k], argv))
    => verdict = "safe"

\* npm run rm under the pattern [npm, run, *]: nothing but the wildcard makes
\* it safe.
C17_Witness ==
    /\ verdict = "safe"
    /\ argv = <<Arg_npm, Arg_run, Arg_rm>>
    /\ user_trusted = <<<<Arg_npm, Arg_run, Arg_star>>>>

\* C18: when an entry is added to the trusted list, a command classified
\* safe with the shorter list is classified safe with the longer one.
C18_Monotone ==
    [][(verdict = "safe" /\ user_trusted' # user_trusted) => verdict' = "safe"]_vars

\* A command that is safe by the first pattern alone, after a second pattern
\* that does not match it has been added.
C18_Witness ==
    /\ verdict = "safe"
    /\ Len(user_trusted) >= 2
    /\ ClaimedMatch(user_trusted[1], argv)
    /\ Len(user_trusted[1]) >= 2
    /\ ~ClaimedMatch(user_trusted[2], argv)
    /\ argv[1] = Arg_rm \/ argv[1] = Arg_npm

\* The command is bash -lc followed by a script and possibly more tokens.
BashLc == Len(argv) >= 3 /\ argv[1] = Arg_bash /\ argv[2] = Arg_opt1_lc

NoTrustedMatch == ~ \E k \in DOMAIN user_trusted : ClaimedMatch(user_trusted[k], argv)

\* The script has a redirection, subshell or substitution character outside
\* single quotes.
HasUnquotedSpecial(script) ==
    \E k \in DOMAIN script :
        /\ script[k] \in {">", "<", "(", ")", "$"}
        /\ Cardinality({j \in 1..(k - 1) : script[j] = "'"}) % 2 = 0

\* C19: with no trusted pattern matching it, bash -lc SCRIPT is classified
\* safe only if it has exactly three tokens, SCRIPT parses as a non-empty
\* sequence of word-only commands joined by the connectors, and each of the
\* commands is trusted or allow-listed; a script with a redirection, subshell
\* or substitution, and a command with a fourth token, are classified unsafe.
C19_BashLcWordOnly ==
    (verdict # "none" /\ BashLc /\ NoTrustedMatch) =>
        /\ verdict = "safe" =>
              /\ Len(argv) = 3
              /\ try_parse_bash(argv[3]).some
              /\ LET all_commands ==
                         try_parse_word_only_commands_sequence(try_parse_bash(argv[3]).value)
                 IN  /\ all_commands.some
                     /\ all_commands.value # <<>>
                     /\ \A k \in DOMAIN all_commands.value :
                           \/ is_command_trusted(all_commands.value[k], user_trusted)
                           \/ is_safe_to_call_with_exec(all_commands.value[k])
        /\ HasUnquotedSpecial(argv[3]) => verdict = "ask"
        /\ Len(argv) > 3 => verdict = "ask"

\* A script of two commands or more classified safe without a trusted pattern
\* for the whole command.
C19_Witness ==
    /\ verdict = "safe"
    /\ BashLc
    /\ NoTrustedMatch
    /\ \E k \in DOMAIN argv[3] : argv[3][k] \in {"&", "|", ";"}

\* The command gives data to upload: -d, -F or -T, alone or with the value
\* attached, or a long option that starts with --data, --form, --upload-file.
SpecifiesUpload(command) ==
    \E k \in 2..Len(command) :
        \E o \in {Arg_opt1_d, Arg_opt1_F, Arg_opt1_T,
                  Arg_opt2_data, Arg_opt2_form, Arg_opt2_upload_file} :
            StartsWith(command[k], o)

\* The command sets a request method other than GET and HEAD with -X or
\* --request, the method being the next argument or attached to -X.
SpecifiesOtherMethod(command) ==
    \E k \in 2..Len(command) :
        \/ /\ command[k] \in {Arg_opt1_X, Arg_opt2_request}
           /\ k + 1 <= Len(command)
           /\ to_uppercase(command[k + 1]) \notin {Arg_GET, Arg_HEAD}
        \/ /\ StartsWith(command[k], Arg_opt1_X)
           /\ Len(command[k]) > 2
           /\ to_uppercase(SubSeq(command[k], 3, Len(command[k]))) \notin {Arg_GET, Arg_HEAD}

\* C20: with no trusted patterns, a curl command that gives data to upload or
\* sets a request method other than GET and HEAD is classified not safe.
C20_CurlDownloadOnly ==
    (/\ verdict # "none"
     /\ user_trusted = <<>>
     /\ argv # <<>>
     /\ argv[1] = Arg_curl
     /\ SpecifiesUpload(argv) \/ SpecifiesOtherMethod(argv))
    => verdict = "ask"

\* C21: a curl command that contains --dump-header, -c, --cookie-jar, -K or
\* --config is not accepted by is_safe_to_call_with_exec.
C21_CurlWritesAndConfig ==
    (/\ verdict # "none"
     /\ argv # <<>>
     /\ argv[1] = Arg_curl
     /\ \E k \in 2..Len(argv) :
           argv[k] \in {Arg_opt2_dump_header, Arg_opt1_c, Arg_opt2_cookie_jar,
                        Arg_opt1_K, Arg_opt2_config})
    => ~is_safe_to_call_with_exec(argv)

\* The bytes of the marker in the result of truncate_middle.
MarkerAt == {k \in DOMAIN output.out : output.out[k] = "m"}

\* The part of the result before the marker.
BeforeMarker ==
    SubSeq(output.out, 1, (CHOOSE k \in MarkerAt : \A j \in MarkerAt : k <= j) - 1)

\* The part of the result after the marker and the newline that ends its line.
AfterMarker ==
    SubSeq(output.out, (CHOOSE k \in MarkerAt : \A j \in MarkerAt : j <= k) + 2,
           Len(output.out))

IsSuffix(a, b) == Len(a) <= Len(b) /\ SubSeq(b, Len(b) - Len(a) + 1, Len(b)) = a

\* C22: the string truncate_middle returns is at most max(cap, len(marker))
\* bytes long, marker being the marker text it contains.
C22_TruncationBudget ==
    output.called =>
        Len(output.out) <= (IF max_bytes >= Cardinality(MarkerAt)
                            THEN max_bytes ELSE Cardinality(MarkerAt))

\* C23: when truncate_middle truncates, the part of the result before the
\* marker is a prefix of the string, the part after the marker line is a
\* suffix of it, and the two parts do not overlap in the string.
C23_TruncationFidelity ==
    (output.called /\ output.original_token_count.some) =>
        /\ IsPrefix(BeforeMarker, text)
        /\ IsSuffix(AfterMarker, text)
        /\ Len(BeforeMarker) + Len(AfterMarker) <= Len(text)

\* A truncation that keeps bytes on both sides of the marker, next to a
\* character of two bytes that the budget would split.
C23_Witness ==
    /\ output.called
    /\ output.original_token_count.some
    /\ BeforeMarker # <<>>
    /\ AfterMarker # <<>>
    /\ \E k \in DOMAIN text : text[k] = "w2" /\ k = Len(text) - Len(AfterMarker)

\* C24: every sleep of retry_with_backoff lasts at most 60 000 ms, the first
\* one included, whatever the configuration.
C24_SleepCapped == \A k \in DOMAIN sleeps : sleeps[k] <= DelayCapMs

\* C25: retry_with_backoff calls the operation at most max_retries + 1 times;
\* Ok comes from the first successful call, which is the last call made; Err
\* comes from the last call when every call has failed.
C25_AttemptsAndResult ==
    /\ Len(outcomes) <= retry_config.max_retries + 1
    /\ retry_result.kind = "ok" =>
          /\ retry_result.of_call = Len(outcomes)
          /\ outcomes[Len(outcomes)] = "ok"
          /\ \A k \in 1..(Len(outcomes) - 1) : outcomes[k] = "err"
    /\ retry_result.kind = "err" =>
          /\ retry_result.of_call = Len(outcomes)
          /\ Len(outcomes) = retry_config.max_retries + 1
          /\ \A k \in DOMAIN outcomes : outcomes[k] = "err"

\* Every call has failed and the retries are used up.
C25_Witness ==
    /\ retry_result.kind = "err"
    /\ retry_config.max_retries >= 2
    /\ Len(outcomes) = retry_config.max_retries + 1

\* C26: a write_stdin whose session id is not in the map returns the error
\* 'unknown session id N' for that id, sends no bytes to the writer of any
\* session and leaves the map as it is.
C26_UnknownSession ==
    [][\A c \in Calls :
          (/\ call[c].pc = "idle"
           /\ call'[c].kind = "stdin"
           /\ call'[c].sid \notin sessions)
          => /\ call'[c].pc = "done"
             /\ call'[c].result = [status |-> "Error", val |-> call'[c].sid]
             /\ stdin' = stdin
             /\ sessions' = sessions]_vars

\* A write_stdin for an id that is not in the map has returned its error
\* while another session is in the map.
C26_Witness ==
    \E c \in Calls :
        /\ call[c].kind = "stdin"
        /\ call[c].result.status = "Error"
        /\ call[c].sid \notin sessions
        /\ sessions # {}

\* C27: the exec_command calls, racing or not, hold pairwise distinct session
\* ids, so that each session of the map was inserted by one call only.
C27_FreshSessionIds ==
    /\ \A c, d \in Calls :
          (c # d /\ call[c].kind = "exec" /\ call[d].kind = "exec")
          => call[c].sid # call[d].sid
    /\ \A s \in sessions :
          Cardinality({c \in Calls : call[c].kind = "exec" /\ call[c].sid = s}) = 1

\* Two exec_command calls that race: the second has allocated its id and
\* inserted its session while the first stands between its allocation and
\* its insert.
C27_Witness ==
    /\ call[1].kind = "exec" /\ call[1].pc = "spawned"
    /\ call[2].kind = "exec" /\ call[2].sid \in sessions

\* C28: in a rollout file created by RolloutRecorder::new the session-meta
\* header is the first line: no item line and no state line is in the file
\* before it, whenever record_items or record_state is called.
C28_HeaderFirst == file # << >> => file[1] = MetaLine

\* C29: when a resume succeeded and the recorder was shut down after its last
\* record_items call, the next resume succeeds, reads a file that is the file
\* of the earlier resume followed by lines that are no header, and returns
\* the items of the earlier resume followed by the recordable items passed
\* to the recorder in between, in order.
C29_ResumeAppends ==
    \A k \in 2..Len(resumed) :
        (resumed[k - 1].ok /\ resumed[k].clean) =>
            /\ resumed[k].ok
            /\ IsPrefix(resumed[k - 1].read, resumed[k].read)
            /\ \A i \in (Len(resumed[k - 1].read) + 1)..Len(resumed[k].read) :
                  resumed[k].read[i].json # "meta"
            /\ resumed[k].items =
                  resumed[k - 1].items
                      \o SubSeq(recorded, resumed[k - 1].mark + 1, resumed[k].mark)

\* The lines resume is to keep: the item lines of a known variant.
IsKeptLine(l) == l.json = "item" /\ l.tag \in Recordable

\* What C30 says of the resume call that read the file f with result r.
SkipsBadLines(f, r) ==
    LET kept == FilterSeq(Tail(f), {l \in Range(f) : IsKeptLine(l)})
    IN  IF f = << >> \/ f[1].json # "meta"
        THEN ~r.ok
        ELSE /\ r.ok
             /\ r.items = [i \in DOMAIN kept |-> Item(kept[i].tag, kept[i].body)]

RECURSIVE ConcatGroups(_)
\* The items of the groups, one group after the other.
ConcatGroups(groups) ==
    IF groups = << >> THEN << >>
    ELSE Head(groups).items \o ConcatGroups(Tail(groups))

\* C31: the groups returned by identify_parallel_groups, concatenated in
\* order, are the input list, and no group is empty.
C31_GroupsPartitionInput ==
    grouped =>
        /\ ConcatGroups(tool_groups) = response_items
        /\ \A k \in DOMAIN tool_groups : tool_groups[k].items # << >>

\* A list was grouped into a group of two calls followed by another group.
C31_Witness ==
    /\ grouped
    /\ Len(tool_groups) >= 2
    /\ Len(tool_groups[1].items) = 2

\* C32: is_safe_for_parallel returns true for read_file, list_files,
\* search_files, glob_files and for the names that start with mcp__ and
\* contain _read, _get, _list, _search or _status, and returns false for
\* shell, container.exec, apply_patch and update_plan.
C32_SafeForParallel ==
    safe_for_parallel # "none" =>
        /\ (\/ called_name \in {Str_read_file, Str_list_files, Str_search_files, Str_glob_files}
            \/ /\ StartsWith(called_name, Str_mcp)
               /\ \E op \in {Str_read, Str_get, Str_list, Str_search, Str_status} :
                     Contains(called_name, op))
           => safe_for_parallel = "true"
        /\ called_name \in {Str_shell, Str_container_exec, Str_apply_patch, Str_update_plan}
           => safe_for_parallel = "false"

\* The message contains the phrase, compared case-insensitively.
ContainsIgnoreCase(str, phrase) == Contains(to_lowercase(str), to_lowercase(phrase))

\* C33: is_rate_limit_error(msg) returns true exactly when msg contains,
\* compared case-insensitively, "rate limit", "429" or "too many requests".
C33_RateLimitError ==
    rate_limit_error # "none" =>
        (rate_limit_error = "true"
         <=> \E phrase \in {Str_rate_limit, Str_429, Str_too_many_requests} :
                ContainsIgnoreCase(msg, phrase))

\* C34: an exec_command handler that has not seen Lagged has collected
\* every chunk its session's reader has broadcast before the position of its
\* receiver, the chunks broadcast before it subscribed included.
C34_NoChunkLost ==
    \A c \in Calls :
        (call[c].kind = "exec" /\ call[c].pc \in {"top", "recv", "grace"}
            /\ call[c].lagged = 0)
        => \A i \in 1..(call[c].cursor - 1) : i \in Range(call[c].collected)

\* C35: every execute_parallel call returns, update_rate_limit_config being
\* called concurrently or not.
C35_ExecuteParallelReturns == <>(caller_pc = "returned")

\* The largest max_concurrent_calls among the limiters installed so far.
LargestInstalled ==
    CHOOSE m \in Range(limiter_cfgs) : \A k \in Range(limiter_cfgs) : k <= m

\* C36: the tasks that hold a permit never number more than the largest
\* max_concurrent_calls among the configurations installed so far.
C36_PermitsWithinLargest ==
    Cardinality({i \in Workers : permit_of[i] # 0}) <= LargestInstalled

\* The completed values of the progress events handed to the sender, in order.
ProgressValues ==
    LET progress == FilterSeq(events, {e \in Range(events) : e.type = "ParallelExecutionProgress"})
    IN  [k \in DOMAIN progress |-> progress[k].completed]

\* C37: the progress events of a call carry the completed values 1, 2, ...
\* in this order, none repeated and none skipped, and when the call has
\* joined its tasks, none of which panicked, the values go up to total.
C37_ProgressCountsUp ==
    /\ \A k \in DOMAIN ProgressValues : ProgressValues[k] = k
    /\ (event_sender /\ NoPanic /\ exec_pc \in {"end", "done"})
           => Len(ProgressValues) = total_count

\* The task of the second item has sent the first progress event and has
\* ended while the task of the first item has not yet executed.
C37_Witness ==
    /\ event_sender
    /\ total_count >= 2
    /\ handles[2].pc = "finished" /\ handles[2].result = "ok"
    /\ handles[1].pc \in {"spawned", "permit"}
    /\ ProgressValues = <<1>>

\* The commands carry pairwise distinct names.
DistinctNames ==
    \A i, j \in DOMAIN commands : i # j => commands[i].name # commands[j].name

\* The places of command i in the waves returned.
PlacesOf(i) ==
    {<<w, k>> \in (DOMAIN execution_groups) \X (1..MaxCommands + 1) :
        k \in DOMAIN execution_groups[w] /\ execution_groups[w][k] = i}

\* C38: resolve_command_dependencies returns, and when the commands carry
\* distinct names every command is in exactly one wave returned, no wave is
\* empty and there are at most as many waves as commands.
C38_WavesPartitionCommands ==
    /\ <>resolved
    /\ []((resolved /\ DistinctNames) =>
            /\ \A i \in DOMAIN commands : Cardinality(PlacesOf(i)) = 1
            /\ \A w \in DOMAIN execution_groups : execution_groups[w] # << >>
            /\ Len(execution_groups) <= Len(commands))

\* Three commands with distinct names were returned in two waves.
C38_Witness ==
    /\ resolved
    /\ DistinctNames
    /\ Len(commands) = 3
    /\ Len(execution_groups) = 2
    /\ cycle_at = 0

\* C39: a batch handed out by take_items holds at most max_batch_size items,
\* whatever add_item calls came before it.
C39_BatchWithinMax ==
    batch_takes > 0 => Len(batch_taken) <= max_batch_size

\* C40: with the transcript overlay shown, the backtrack preview active and a
\* user message in the transcript, Enter sends GetHistory for the fork it
\* stages, closes the overlay and leaves the backtrack state at its default.
C40_EnterInitiatesFork ==
    [][(/\ overlay = "Transcript"
        /\ backtrack.overlay_preview_active
        /\ UserPlacesFromEnd(transcript_lines) # << >>
        /\ HandleBacktrackOverlayEvent("Enter"))
       => (/\ app_event_tx' = Append(app_event_tx, "GetHistory")
           /\ overlay' = "None"
           /\ backtrack' = DefaultBacktrackState)]_vars

====
